---- MODULE Spec2Model ----
(***************************************************************************)
(* suntobot: the chunk-caching summary engine (src/src/summary_engine.py), *)
(* its chunk table (src/src/database.py) and the output sanitizer          *)
(* sanitize_html, as state machines.                                       *)
(*                                                                         *)
(*   SpecChunk  calculate_chunk_boundaries, one loop iteration per step    *)
(*   Spec       the bot: message ingestion, group allow/deny and the       *)
(*              summary request, one step per external call                *)
(*   SpecSan    sanitize_html over strings built from markup pieces        *)
(*   SpecBackfill  ensure_chunks_processed, one loop iteration per step    *)
(*   SpecGate   the allow-list check at the head of the update handlers    *)
(*   SpecLookup DatabaseManager.get_cached_chunks_for_range on small tables *)
(*   SpecTime   parse_time_interval (src/src/time_utils.py) on short texts *)
(***************************************************************************)
EXTENDS Integers, Sequences, FiniteSets, TLC

(***************************************************************************)
(* Bounds of the model.                                                    *)
(***************************************************************************)
MaxMsgId == 4
MaxChunkSize == 2
MaxThreshold == 1
MaxLoopIterations == 5
MaxPieces == 3
MaxStoredId == 3
MaxStoredRows == 3
MaxTimeLen == 3
MaxRaceMsgs == 3
MaxRangeMsgs == 3

(***************************************************************************)
(* Program constants (src/src/config.py), read from the environment there; *)
(* the values are a scaled-down configuration.                             *)
(***************************************************************************)
MAX_CONTEXT_TOKENS == 8
CHARS_PER_TOKEN == 2

VARIABLES
  \* ---- calculate_chunk_boundaries, stepwise (SpecChunk)
  cb_messages,      \* argument: message ids, ascending
  cb_chunk_size,    \* argument
  cb_overlap,       \* argument
  cb_start_idx,     \* local start_idx (0-based)
  cb_boundaries,    \* local boundaries / the returned list
  cb_pc,            \* "entry" | "loop" | "done" | "raised"
  \* ---- configuration (Config), fixed for a run
  chunk_size,       \* Config.SUMMARY_CHUNK_SIZE
  overlap,          \* Config.SUMMARY_CHUNK_OVERLAP
  threshold,        \* Config.SMALL_SUMMARY_THRESHOLD
  \* ---- database tables
  messages,         \* table messages: set of [chat_id, message_id]
  chunk_summaries,  \* table chunk_summaries: the set of its rows
  allowed_groups,   \* table allowed_groups: set of [chat_id, is_active]
  \* ---- the summary request in progress (generate_summary)
  pc,               \* position of the request
  req,              \* [chat_id, messages]: the request's arguments
  all_summaries,    \* local all_summaries of _generate_cache_aware_summary
  covered,          \* [start, end]: covered_start / covered_end
  loop,             \* frame of _process_chunks_with_boundaries
  meta,             \* frame of _apply_progressive_summarization
  result,           \* what generate_summary handed to its caller
  calls,            \* completion calls issued by the request, by kind
  last_store,       \* outcome of the last ChunkCacheManager.store_chunk_summary
  \* ---- sanitize_html (SpecSan)
  san_input,        \* the text handed to sanitize_html
  san_output,       \* the text it returned
  san_pc,           \* "input" | "done"
  \* ---- ensure_chunks_processed, the backfill pass (SpecBackfill)
  bf_pc,            \* "idle" | "loop" | "done"
  bf_chat,          \* argument chat_id
  bf_committed,     \* the returned count of committed chunks
  bf_round,         \* the last iteration: what was uncovered, dispatched, committed
  bf_last,          \* the previous pass: the chat's messages and rows when it returned
  \* ---- DatabaseManager.get_cached_chunks_for_range (SpecLookup)
  lk_query,         \* arguments [chat_id, start_message_id, end_message_id]
  lk_result,        \* the returned list
  lk_pc,            \* "call" | "done"
  \* ---- parse_time_interval (SpecTime)
  ti_input,         \* argument interval_str
  ti_result,        \* what the call gave: a timedelta, None or an exception
  ti_pc,            \* "call" | "done"
  \* ---- the handlers' check of the allow-list (SpecGate)
  upd,              \* the last update handled and what the bot did for it
  \* ---- the admin commands (SpecAdmin)
  adm,              \* the last admin command handled and the reply it got
  \* ---- the storage writes and their failures (SpecWrite)
  wr,               \* the last write: whether storage raised and where that ended
  \* ---- two chunk-committing invocations for one chat (SpecRace)
  rc,               \* per invocation: its position, its boundaries, its last store
  \* ---- DatabaseManager.allow_group and deny_group (SpecAllow)
  al,               \* the last call and, per chat, the last call that succeeded
  \* ---- the time range of the summary command (SpecRange)
  tr                \* the last summary command: its range and the reply it got

cb_vars == <<cb_messages, cb_chunk_size, cb_overlap, cb_start_idx, cb_boundaries, cb_pc>>
cfg_vars == <<chunk_size, overlap, threshold>>
db_vars == <<messages, chunk_summaries, allowed_groups>>
req_vars == <<pc, req, all_summaries, covered, loop, meta, result, calls, last_store>>
san_vars == <<san_input, san_output, san_pc>>
bf_vars == <<bf_pc, bf_chat, bf_committed, bf_round, bf_last>>
lk_vars == <<lk_query, lk_result, lk_pc>>
ti_vars == <<ti_input, ti_result, ti_pc>>
ops_vars == <<adm, wr, rc, al, tr>>
ext_vars == <<bf_vars, lk_vars, ti_vars, upd, ops_vars>>
vars == <<cb_vars, cfg_vars, db_vars, req_vars, san_vars, ext_vars>>

(***************************************************************************)
(* Helpers.                                                                *)
(***************************************************************************)
Min(a, b) == IF a <= b THEN a ELSE b
Max(a, b) == IF a >= b THEN a ELSE b
SetMin(S) == CHOOSE x \in S : \A y \in S : x <= y
SetMax(S) == CHOOSE x \in S : \A y \in S : x >= y
Range(s) == {s[i] : i \in 1..Len(s)}

RECURSIVE SortedSeq(_)
SortedSeq(S) == IF S = {} THEN <<>>
                ELSE LET m == SetMin(S) IN <<m>> \o SortedSeq(S \ {m})

RECURSIVE SumSeq(_)
SumSeq(s) == IF s = <<>> THEN 0 ELSE Head(s) + SumSeq(Tail(s))

\* Python's list slice s[a:b] with 0-based, possibly negative, indices.
PyIndex(n, i) == IF i < 0 THEN Max(i + n, 0) ELSE Min(i, n)
PySlice(s, a, b) == SubSeq(s, PyIndex(Len(s), a) + 1, PyIndex(Len(s), b))

(***************************************************************************)
(* ChunkCacheManager.calculate_chunk_boundaries.                           *)
(***************************************************************************)
ChunkBoundary(start_message_id, end_message_id, message_count, is_complete) ==
  [start_message_id |-> start_message_id, end_message_id |-> end_message_id,
   message_count |-> message_count, is_complete |-> is_complete]

\* line 55: the early return for a list that is not longer than one chunk
IsSingleChunk(n, size) == n <= size

\* line 76: is_complete=(len(chunk_messages) == chunk_size)
IsCompleteMut(n, size) == n <= size
IsComplete(n, size) == n = size

\* lines 56-63
SingleBoundary(msgs) ==
  ChunkBoundary(msgs[1], msgs[Len(msgs)], Len(msgs), FALSE)

\* lines 69-77: the boundary of the slice messages[start_idx:end_idx]
EndIdx(msgs, size, start_idx) == Min(start_idx + size, Len(msgs))
ChunkMessages(msgs, size, start_idx) ==
  PySlice(msgs, start_idx, EndIdx(msgs, size, start_idx))
LoopBoundary(msgs, size, start_idx) ==
  LET chunk_messages == ChunkMessages(msgs, size, start_idx)
  IN ChunkBoundary(chunk_messages[1], chunk_messages[Len(chunk_messages)],
                   Len(chunk_messages), IsComplete(Len(chunk_messages), size))

\* line 85: start_idx = end_idx - overlap
NextStartIdx(end_idx, ovl) == end_idx - ovl

\* lines 65-87, for the configurations in which the loop ends (overlap < chunk_size)
RECURSIVE BoundariesFrom(_, _, _, _)
BoundariesFrom(msgs, size, ovl, start_idx) ==
  LET end_idx == EndIdx(msgs, size, start_idx)
      boundary == LoopBoundary(msgs, size, start_idx)
  IN IF end_idx >= Len(msgs) THEN <<boundary>>
     ELSE <<boundary>> \o BoundariesFrom(msgs, size, ovl, NextStartIdx(end_idx, ovl))

calculate_chunk_boundaries(msgs, size, ovl) ==
  IF msgs = <<>> THEN <<>>
  ELSE IF IsSingleChunk(Len(msgs), size) THEN <<SingleBoundary(msgs)>>
  ELSE BoundariesFrom(msgs, size, ovl, 0)


(***************************************************************************)
(* Values of the variables a specification does not use.                   *)
(***************************************************************************)
NoReq == [chat_id |-> 0, messages |-> <<>>]
NoCovered == [start |-> 0, end |-> 0]
NoLoop == [messages |-> <<>>, boundaries |-> <<>>, i |-> 0, should_cache |-> FALSE,
           summaries |-> <<>>, cont |-> "none"]
NoMeta == [groups |-> <<>>, i |-> 0, summaries |-> <<>>]
Text(kind, of, parts, chars) ==
  [kind |-> kind, of |-> of, parts |-> parts, chars |-> chars]
NoText == Text("none", <<>>, <<>>, 0)
NoResult == [returned |-> FALSE, raised |-> FALSE, is_text |-> FALSE,
             text |-> NoText, sanitize_passes |-> 0]
NoCalls == [simple |-> 0, chunk |-> 0, reduce |-> 0, meta |-> 0]
NoStore == [attempted |-> FALSE, chunk_id |-> <<>>, duplicate |-> FALSE,
            db_raised |-> FALSE, surfaced |-> FALSE]

CbQuiet == /\ cb_messages = <<>> /\ cb_chunk_size = 1 /\ cb_overlap = 0
           /\ cb_start_idx = 0 /\ cb_boundaries = <<>> /\ cb_pc = "done"
CfgQuiet == chunk_size = 1 /\ overlap = 0 /\ threshold = 0
DbQuiet == messages = {} /\ chunk_summaries = {} /\ allowed_groups = {}
ReqQuiet == /\ pc = "idle" /\ req = NoReq /\ all_summaries = <<>> /\ covered = NoCovered
            /\ loop = NoLoop /\ meta = NoMeta /\ result = NoResult /\ calls = NoCalls
            /\ last_store = NoStore
SanQuiet == san_input = <<>> /\ san_output = <<>> /\ san_pc = "done"
NoRound == [uncovered |-> <<>>, dispatched |-> <<>>, failed |-> 0, committed |-> {}]
NoLast == [ran |-> FALSE, chat_id |-> 0, messages |-> <<>>, rows |-> {}]
NoUpdate == [serial |-> 0, kind |-> "none", chat_id |-> 0, allowed |-> FALSE,
             replied |-> FALSE, called |-> FALSE, backfill |-> FALSE]
BfQuiet == /\ bf_pc = "idle" /\ bf_chat = 0 /\ bf_committed = 0
           /\ bf_round = NoRound /\ bf_last = NoLast
LkQuiet == lk_query = <<>> /\ lk_result = <<>> /\ lk_pc = "done"
TiQuiet == ti_input = <<>> /\ ti_result = <<>> /\ ti_pc = "done"
NoCommand == [serial |-> 0, cmd |-> "none", chat_type |-> "private", chat_id |-> 0,
              user_id |-> 0, reply |-> "none"]
NoWrite == [serial |-> 0, op |-> "none", db_raised |-> FALSE, caught_by |-> "none",
            handled |-> "none"]
Invocations == {1, 2}
IdleInvocation == [pc |-> "idle", messages |-> <<>>, todo |-> <<>>, i |-> 0, last |-> NoStore]
Groups == {1, 2, 3}
NoCall == [serial |-> 0, op |-> "none", chat_id |-> 0, succeeded |-> FALSE,
           prev |-> "none", last |-> [c \in Groups |-> "none"]]
NoRange == [serial |-> 0, chat_id |-> 0, user_id |-> 0, time_interval |-> "None",
            desc |-> "none", since |-> 0, selected |-> {}, reply |-> "none"]
OpsQuiet == /\ adm = NoCommand /\ wr = NoWrite
            /\ rc = [p \in Invocations |-> IdleInvocation]
            /\ al = NoCall /\ tr = NoRange
ExtQuiet == BfQuiet /\ LkQuiet /\ TiQuiet /\ upd = NoUpdate /\ OpsQuiet

(***************************************************************************)
(* SpecChunk: calculate_chunk_boundaries, one loop iteration per step.     *)
(* overlap ranges over 0..MaxChunkSize, so overlap >= chunk_size occurs.   *)
(***************************************************************************)
AscendingSeqs == {SortedSeq(S) : S \in SUBSET (1..MaxMsgId)}

CbInit ==
  /\ cb_messages \in AscendingSeqs
  /\ cb_chunk_size \in 1..MaxChunkSize
  /\ cb_overlap \in 0..MaxChunkSize
  /\ cb_start_idx = 0 /\ cb_boundaries = <<>> /\ cb_pc = "entry"
  /\ CfgQuiet /\ DbQuiet /\ ReqQuiet /\ SanQuiet /\ ExtQuiet

\* lines 52-66
CbEntry ==
  /\ cb_pc = "entry"
  /\ IF cb_messages = <<>>
       THEN cb_boundaries' = <<>> /\ cb_pc' = "done"
       ELSE IF IsSingleChunk(Len(cb_messages), cb_chunk_size)
         THEN cb_boundaries' = <<SingleBoundary(cb_messages)>> /\ cb_pc' = "done"
         ELSE cb_boundaries' = <<>> /\ cb_pc' = "loop"
  /\ UNCHANGED <<cb_messages, cb_chunk_size, cb_overlap, cb_start_idx>>
  /\ UNCHANGED <<cfg_vars, db_vars, req_vars, san_vars, ext_vars>>

\* lines 68-85, one iteration; chunk_messages[0] of an empty slice raises IndexError
CbIterate ==
  /\ cb_pc = "loop"
  /\ Len(cb_boundaries) < MaxLoopIterations
  /\ IF ~(cb_start_idx < Len(cb_messages))
       THEN cb_pc' = "done" /\ UNCHANGED <<cb_boundaries, cb_start_idx>>
       ELSE LET end_idx == EndIdx(cb_messages, cb_chunk_size, cb_start_idx)
                chunk_messages == ChunkMessages(cb_messages, cb_chunk_size, cb_start_idx)
            IN IF chunk_messages = <<>>
                 THEN cb_pc' = "raised" /\ UNCHANGED <<cb_boundaries, cb_start_idx>>
                 ELSE /\ cb_boundaries' = Append(cb_boundaries,
                              LoopBoundary(cb_messages, cb_chunk_size, cb_start_idx))
                      /\ IF end_idx >= Len(cb_messages)
                           THEN cb_pc' = "done" /\ UNCHANGED cb_start_idx
                           ELSE /\ cb_pc' = "loop"
                                /\ cb_start_idx' = NextStartIdx(end_idx, cb_overlap)
  /\ UNCHANGED <<cb_messages, cb_chunk_size, cb_overlap>>
  /\ UNCHANGED <<cfg_vars, db_vars, req_vars, san_vars, ext_vars>>

CbNext == CbEntry \/ CbIterate
SpecChunk == CbInit /\ [][CbNext]_vars
\* the call runs on: a loop that can take another iteration takes it
SpecChunkFair == SpecChunk /\ WF_vars(CbNext)

\* The committable (complete) boundaries of the returned list.
CbComplete == SelectSeq(cb_boundaries, LAMBDA b : b.is_complete)
\* The ids of the i-th slice of size S of the argument (1-based i).
CbSlice(i) == SubSeq(cb_messages, (i - 1) * cb_chunk_size + 1, i * cb_chunk_size)

\* C4 (claim, read for overlap = 0, the non-overlapping slicing it describes):
\* calculate_chunk_boundaries yields exactly floor(n/S) complete chunks, the
\* i-th being the i-th slice of S consecutive messages, so that the last
\* n mod S messages are in no complete chunk; n = S gives one complete chunk.
C4_FloorCompleteChunks ==
  (cb_pc = "done" /\ cb_overlap = 0) =>
     /\ Len(CbComplete) = Len(cb_messages) \div cb_chunk_size
     /\ \A i \in 1..Len(CbComplete) :
          /\ CbComplete[i].message_count = cb_chunk_size
          /\ CbComplete[i].start_message_id = CbSlice(i)[1]
          /\ CbComplete[i].end_message_id = CbSlice(i)[cb_chunk_size]


(***************************************************************************)
(* Texts.  A text is kept symbolically: what produced it (kind), from      *)
(* which messages (of) or from which texts (parts), and its length in the  *)
(* scaled unit of the character budget (chars).                            *)
(*   chunk     a completion's summary of the messages `of`                 *)
(*   error     "[Error summarizing chunk k]" for the messages `of`         *)
(*   empty     ""                                                          *)
(*   combined  "Combined uncovered range summary:\nPart 1: ..."            *)
(*   section   a completion's summary of one meta-chunk                    *)
(*   joined    " | ".join(meta_chunk)                                      *)
(*   simple    a completion's summary of the raw request                   *)
(*   meta      a completion's combination of the partial summaries         *)
(*   fallback  "Summary for ...:" followed by the partial summaries        *)
(*   no_messages, no_content, unable, sorry: the fixed replies             *)
(***************************************************************************)
EmptyText == Text("empty", <<>>, <<>>, 0)
SummaryChars == {4}
ErrorChars == 1
SeqChars(ts) == SumSeq([i \in 1..Len(ts) |-> ts[i].chars])

\* Python's truth value of a str: false for "" alone
RECURSIVE IsTruthy(_)
IsTruthy(t) ==
  IF t.kind = "empty" THEN FALSE
  ELSE IF t.kind = "joined" THEN Len(t.parts) > 1 \/ (t.parts # <<>> /\ IsTruthy(t.parts[1]))
  ELSE TRUE
\* s.startswith("[Error")
RECURSIVE StartsWithError(_)
StartsWithError(t) ==
  \/ t.kind = "error"
  \/ t.kind = "joined" /\ t.parts # <<>> /\ StartsWithError(t.parts[1])
\* line 505: s.strip() and not s.startswith("[Error")
IsValidSummary(t) == IsTruthy(t) /\ ~StartsWithError(t)

\* The outcomes of one completion call as the caller sees them: the text of
\* the reply (of some length, possibly blank) or an exception; "raise" is an
\* exception of the rendering code that precedes the call, outside its try.
ReplyOutcomes == {[kind |-> "ok", chars |-> c] : c \in SummaryChars}
                   \cup {[kind |-> "empty", chars |-> 0]}
FailOutcome == [kind |-> "fail", chars |-> 0]
RaiseOutcome == [kind |-> "raise", chars |-> 0]
OkOutcome == [kind |-> "ok", chars |-> 4]

(***************************************************************************)
(* The chunk table: DatabaseManager and ChunkCacheManager.                 *)
(***************************************************************************)
Chats == {1}

\* f"{chat_id}_{start_id}_{end_id}"
generate_chunk_id(chat_id, start_id, end_id) == <<chat_id, "_", start_id, "_", end_id>>

ChunkRowEndAtStart(chunk_id, chat_id, start_message_id, end_message_id, message_count, summary_text) ==
  [chunk_id |-> chunk_id, chat_id |-> chat_id, start_message_id |-> start_message_id,
   end_message_id |-> start_message_id, message_count |-> message_count,
   summary_text |-> summary_text]
ChunkRow(chunk_id, chat_id, start_message_id, end_message_id, message_count, summary_text) ==
  [chunk_id |-> chunk_id, chat_id |-> chat_id, start_message_id |-> start_message_id,
   end_message_id |-> end_message_id, message_count |-> message_count,
   summary_text |-> summary_text]

\* the unique constraint on chunk_summaries.chunk_id
ViolatesUniqueMut(rows, row) == FALSE
ViolatesUnique(rows, row) == \E r \in rows : r.chunk_id = row.chunk_id

\* DatabaseManager.store_chunk_summary: insert and commit, or roll back and raise
db_store_overwrite(rows, row, db_fault) ==
  IF db_fault THEN [rows |-> rows, raised |-> TRUE]
  ELSE [rows |-> {r \in rows : r.chunk_id # row.chunk_id} \cup {row}, raised |-> FALSE]
db_store_chunk_summary(rows, row, db_fault) ==
  IF db_fault \/ ViolatesUnique(rows, row)
    THEN [rows |-> rows, raised |-> TRUE]
    ELSE [rows |-> rows \cup {row}, raised |-> FALSE]

\* order_by(ChunkSummary.start_message_id.asc())
RECURSIVE SortByStart(_)
SortByStart(rows) ==
  IF rows = {} THEN <<>>
  ELSE LET first == CHOOSE r \in rows : \A q \in rows : r.start_message_id <= q.start_message_id
       IN <<first>> \o SortByStart(rows \ {first})

\* DatabaseManager.get_cached_chunks_for_range
db_get_cached_chunks_strictly(rows, chat_id, start_message_id, end_message_id) ==
  SortByStart({r \in rows :
     /\ r.chat_id = chat_id
     /\ r.start_message_id < end_message_id
     /\ r.end_message_id > start_message_id})
db_get_cached_chunks_for_range(rows, chat_id, start_message_id, end_message_id) ==
  SortByStart({r \in rows :
     /\ r.chat_id = chat_id
     /\ r.start_message_id <= end_message_id
     /\ r.end_message_id >= start_message_id})

\* ChunkCacheManager.get_cached_chunks_for_range: a database error is logged
\* and an empty list returned
cache_get_cached_chunks_for_range(rows, chat_id, start_message_id, end_message_id, db_fault) ==
  IF db_fault THEN <<>>
  ELSE db_get_cached_chunks_for_range(rows, chat_id, start_message_id, end_message_id)

\* ChunkCacheManager.store_chunk_summary: a database error is logged, nothing
\* is raised to the caller
cache_store_discarded(rows, chat_id, boundary, summary, db_fault) ==
  [rows |-> rows,
   log |-> [attempted |-> TRUE,
            chunk_id |-> generate_chunk_id(chat_id, boundary.start_message_id,
                                           boundary.end_message_id),
            duplicate |-> FALSE, db_raised |-> db_fault, surfaced |-> FALSE]]
cache_store_chunk_summary(rows, chat_id, boundary, summary, db_fault) ==
  LET chunk_id == generate_chunk_id(chat_id, boundary.start_message_id,
                                    boundary.end_message_id)
      row == ChunkRow(chunk_id, chat_id, boundary.start_message_id,
                      boundary.end_message_id, boundary.message_count, summary)
      r == db_store_chunk_summary(rows, row, db_fault)
  IN [rows |-> r.rows,
      log |-> [attempted |-> TRUE, chunk_id |-> chunk_id,
               duplicate |-> \E q \in rows : q.chunk_id = chunk_id,
               db_raised |-> r.raised, surfaced |-> FALSE]]

\* ChunkCacheManager.get_messages_for_boundary
get_messages_for_boundary_mut(msgs, boundary) ==
  SelectSeq(msgs, LAMBDA m : boundary.start_message_id <= m /\ m < boundary.end_message_id)
get_messages_for_boundary(msgs, boundary) ==
  SelectSeq(msgs, LAMBDA m : boundary.start_message_id <= m /\ m <= boundary.end_message_id)

\* DatabaseManager.is_group_allowed
is_group_known(chat_id) ==
  \E g \in allowed_groups : g.chat_id = chat_id
is_group_allowed(chat_id) ==
  \E g \in allowed_groups : g.chat_id = chat_id /\ g.is_active

\* the stored messages of a chat, oldest first
ChatMessages(chat_id) ==
  SortedSeq({m.message_id : m \in {x \in messages : x.chat_id = chat_id}})


(***************************************************************************)
(* SummaryEngine: the pure parts.                                          *)
(***************************************************************************)
\* _summarize_chunk, lines 414-432: the reply stripped, or the error text
summarize_chunk(msgs, chunk_index, total_chunks, outcome) ==
  IF msgs = <<>> THEN EmptyText
  ELSE IF outcome.kind = "ok" THEN Text("chunk", msgs, <<>>, outcome.chars)
  ELSE IF outcome.kind = "empty" THEN EmptyText
  ELSE Text("error", msgs, <<>>, ErrorChars)

\* lines 761-764
max_chars_whole_context == MAX_CONTEXT_TOKENS * CHARS_PER_TOKEN
max_chars_for_meta_summary == (MAX_CONTEXT_TOKENS * CHARS_PER_TOKEN) \div 2

\* _apply_progressive_summarization, lines 963-987: the meta-chunks
RECURSIVE GroupSummaries(_, _, _, _)
GroupSummaries(summaries, current_meta_chunk, current_char_count, target) ==
  IF summaries = <<>>
    THEN IF current_meta_chunk # <<>> THEN <<current_meta_chunk>> ELSE <<>>
    ELSE LET summary == Head(summaries)
         IN IF current_char_count + summary.chars > target /\ current_meta_chunk # <<>>
              THEN <<current_meta_chunk>>
                     \o GroupSummaries(Tail(summaries), <<summary>>, summary.chars, target)
              ELSE GroupSummaries(Tail(summaries), Append(current_meta_chunk, summary),
                                  current_char_count + summary.chars, target)

\* _process_uncovered_range, lines 862-868
CombineUncovered(summaries) ==
  IF Len(summaries) > 1 THEN Text("combined", <<>>, summaries, SeqChars(summaries))
  ELSE IF summaries # <<>> THEN summaries[1] ELSE EmptyText

\* generate_summary, lines 1036-1043: sanitize what generate_smart_summary
\* returned, or turn its exception into the apology
generate_summary_unguarded(raw, passes, raised) ==
  IF raised
    THEN [returned |-> FALSE, raised |-> TRUE, is_text |-> FALSE, text |-> NoText,
          sanitize_passes |-> 0]
    ELSE [returned |-> TRUE, raised |-> FALSE, is_text |-> raw.kind # "none",
          text |-> raw, sanitize_passes |-> passes + 1]
generate_summary(raw, passes, raised) ==
  IF raised
    THEN [returned |-> TRUE, raised |-> FALSE, is_text |-> TRUE,
          text |-> Text("sorry", <<>>, <<>>, 1), sanitize_passes |-> 0]
    ELSE [returned |-> TRUE, raised |-> FALSE, is_text |-> raw.kind # "none",
          text |-> raw, sanitize_passes |-> passes + 1]

\* lines 699-701 and 706-708: the summaries of the range before the cached
\* chunks are put in front of all_summaries, in their own order
InsertAtEnd(uncovered_summaries, all) == all \o uncovered_summaries
InsertAtBeginning(uncovered_summaries, all) == uncovered_summaries \o all

\* the frame of a call of _process_chunks_with_boundaries
LoopFrame(msgs, boundaries, should_cache, cont) ==
  [messages |-> msgs, boundaries |-> boundaries, i |-> 1, should_cache |-> should_cache,
   summaries |-> <<>>, cont |-> cont]

Target(next_pc, next_loop, next_all, next_meta) ==
  [pc |-> next_pc, loop |-> next_loop, all_summaries |-> next_all, meta |-> next_meta]

\* lines 760-777 (and 946-987): one meta-summary, or progressive summarization
Gather(all) ==
  IF SeqChars(all) > max_chars_for_meta_summary
    THEN Target("reduce", NoLoop, all,
           [groups |-> GroupSummaries(all, <<>>, 0, max_chars_for_meta_summary \div 4),
            i |-> 1, summaries |-> <<>>])
    ELSE Target("meta", NoLoop, all, [groups |-> <<>>, i |-> 0, summaries |-> all])

\* lines 672-708 / 718-750: an uncovered range of at least one chunk is chunked
\* and cached, a smaller one goes to _process_uncovered_range
Uncovered(uncovered_messages, all, side) ==
  IF Len(uncovered_messages) >= chunk_size
    THEN Target("chunks",
           LoopFrame(uncovered_messages,
                     calculate_chunk_boundaries(uncovered_messages, chunk_size, overlap),
                     TRUE, side),
           all, NoMeta)
    ELSE Target("uncovered", LoopFrame(uncovered_messages, <<>>, FALSE, side), all, NoMeta)

\* lines 710-750
AfterPhase(all, cov) ==
  LET end_message_id == req.messages[Len(req.messages)]
      uncovered_messages == SelectSeq(req.messages, LAMBDA m : m > cov.end)
  IN IF end_message_id > cov.end /\ uncovered_messages # <<>>
       THEN Uncovered(uncovered_messages, all, "after")
       ELSE Gather(all)

\* lines 662-708
BeforePhase(all, cov) ==
  LET start_message_id == req.messages[1]
      uncovered_messages ==
        SelectSeq(req.messages, LAMBDA m : start_message_id <= m /\ m < cov.start)
  IN IF start_message_id < cov.start /\ uncovered_messages # <<>>
       THEN Uncovered(uncovered_messages, all, "before")
       ELSE AfterPhase(all, cov)

Goto(t) ==
  /\ pc' = t.pc /\ loop' = t.loop /\ all_summaries' = t.all_summaries /\ meta' = t.meta

Finish(r) ==
  /\ pc' = "done" /\ result' = r
  /\ loop' = NoLoop /\ meta' = NoMeta /\ all_summaries' = <<>>


(***************************************************************************)
(* Spec: the bot.  Updates are handled one at a time (the Application is   *)
(* built without concurrent updates), so a handler runs to its end before  *)
(* the next starts; the summary request is split at its external calls.    *)
(***************************************************************************)
Init ==
  /\ chunk_size \in 1..MaxChunkSize
  /\ overlap \in 0..(chunk_size - 1)
  /\ threshold \in 0..MaxThreshold
  /\ DbQuiet /\ ReqQuiet /\ CbQuiet /\ SanQuiet /\ ExtQuiet

\* handle_allow_command -> DatabaseManager.allow_group
AllowGroup(c) ==
  /\ pc = "idle"
  /\ allowed_groups' =
       IF \E g \in allowed_groups : g.chat_id = c
         THEN {IF g.chat_id = c THEN [g EXCEPT !.is_active = TRUE] ELSE g : g \in allowed_groups}
         ELSE allowed_groups \cup {[chat_id |-> c, is_active |-> TRUE]}
  /\ UNCHANGED <<messages, chunk_summaries>>
  /\ UNCHANGED <<cb_vars, cfg_vars, req_vars, san_vars, ext_vars>>

\* handle_deny_command -> DatabaseManager.deny_group
DenyGroup(c) ==
  /\ pc = "idle"
  /\ \E g \in allowed_groups : g.chat_id = c
  /\ allowed_groups' =
       {IF g.chat_id = c THEN [g EXCEPT !.is_active = FALSE] ELSE g : g \in allowed_groups}
  /\ UNCHANGED <<messages, chunk_summaries>>
  /\ UNCHANGED <<cb_vars, cfg_vars, req_vars, san_vars, ext_vars>>

\* MessageHandler.handle_message -> DatabaseManager.save_message; Telegram
\* numbers the messages of a chat upwards
HandleMessage(c, id) ==
  /\ pc = "idle"
  /\ is_group_allowed(c)
  /\ \A m \in messages : m.chat_id = c => m.message_id < id
  /\ messages' = messages \cup {[chat_id |-> c, message_id |-> id]}
  /\ UNCHANGED <<chunk_summaries, allowed_groups>>
  /\ UNCHANGED <<cb_vars, cfg_vars, req_vars, san_vars, ext_vars>>

\* generate_smart_summary, line 574: small volume, everything is processed live
IsAnyVolume(message_count) == TRUE
IsSmallVolume(message_count) == message_count <= threshold

\* handle_summary_command -> generate_summary -> generate_smart_summary: the
\* messages since a point in time, i.e. a suffix of the chat's messages
StartSummary(c, k) ==
  /\ pc = "idle"
  /\ is_group_allowed(c)
  /\ k \in 1..(Len(ChatMessages(c)) + 1)
  /\ LET msgs == SubSeq(ChatMessages(c), k, Len(ChatMessages(c)))
     IN /\ req' = [chat_id |-> c, messages |-> msgs]
        /\ IF msgs = <<>>
             THEN Finish(generate_summary(Text("no_messages", <<>>, <<>>, 1), 0, FALSE))
             ELSE /\ pc' = IF IsSmallVolume(Len(msgs)) THEN "simple" ELSE "lookup"
                  /\ UNCHANGED <<result, loop, meta, all_summaries>>
  /\ UNCHANGED <<covered, calls, last_store>>
  /\ UNCHANGED <<cb_vars, cfg_vars, db_vars, san_vars, ext_vars>>

\* _generate_simple_summary
SimpleOutcomes == {OkOutcome, [kind |-> "empty", chars |-> 0], FailOutcome, RaiseOutcome,
                   [kind |-> "too_long", chars |-> 0]}
SimpleSummary(outcome) ==
  /\ pc = "simple"
  /\ IF outcome.kind = "raise"
       THEN Finish(generate_summary(NoText, 0, TRUE)) /\ UNCHANGED calls
     ELSE IF outcome.kind \in {"too_long", "fail"}
       THEN /\ pc' = "lookup"
            /\ calls' = IF outcome.kind = "fail" THEN [calls EXCEPT !.simple = @ + 1] ELSE calls
            /\ UNCHANGED <<result, loop, meta, all_summaries>>
     ELSE /\ calls' = [calls EXCEPT !.simple = @ + 1]
          /\ Finish(generate_summary(
               IF outcome.kind = "empty" THEN EmptyText
               ELSE Text("simple", req.messages, <<>>, outcome.chars), 1, FALSE))
  /\ UNCHANGED <<req, covered, last_store>>
  /\ UNCHANGED <<cb_vars, cfg_vars, db_vars, san_vars, ext_vars>>

\* _generate_cache_aware_summary, lines 600-660
LookupCachedChunks(db_fault) ==
  /\ pc = "lookup"
  /\ LET start_message_id == req.messages[1]
         end_message_id == req.messages[Len(req.messages)]
         overlapping_chunks ==
           cache_get_cached_chunks_for_range(chunk_summaries, req.chat_id,
                                             start_message_id, end_message_id, db_fault)
         cached == [i \in 1..Len(overlapping_chunks) |-> overlapping_chunks[i].summary_text]
         cov == [start |-> SetMin({overlapping_chunks[i].start_message_id :
                                      i \in 1..Len(overlapping_chunks)}),
                 end |-> SetMax({overlapping_chunks[i].end_message_id :
                                      i \in 1..Len(overlapping_chunks)})]
     IN IF overlapping_chunks = <<>>
          THEN /\ Goto(Target("chunks",
                         LoopFrame(req.messages,
                                   calculate_chunk_boundaries(req.messages, chunk_size, overlap),
                                   TRUE, "deterministic"),
                         <<>>, NoMeta))
               /\ UNCHANGED covered
          ELSE /\ covered' = cov
               /\ IF cov.start <= start_message_id /\ cov.end >= end_message_id
                    THEN Goto(Gather(cached))
                    ELSE Goto(BeforePhase(cached, cov))
  /\ UNCHANGED <<req, result, calls, last_store>>
  /\ UNCHANGED <<cb_vars, cfg_vars, db_vars, san_vars, ext_vars>>

\* _process_chunks_with_boundaries: the boundary the loop is at
LoopAtBoundary == pc = "chunks" /\ loop.i <= Len(loop.boundaries)
CurBoundary == loop.boundaries[loop.i]
CurChunkMessages == get_messages_for_boundary(loop.messages, CurBoundary)
\* lines 805 and 815: the boundary is passed over
SkipsBoundary ==
  \/ loop.should_cache /\ ~CurBoundary.is_complete
  \/ CurChunkMessages = <<>>

SkipChunk ==
  /\ LoopAtBoundary
  /\ SkipsBoundary
  /\ loop' = [loop EXCEPT !.i = @ + 1]
  /\ UNCHANGED <<pc, req, all_summaries, covered, meta, result, calls>>
  /\ last_store' = NoStore
  /\ UNCHANGED <<cb_vars, cfg_vars, db_vars, san_vars, ext_vars>>

\* lines 811-839: _summarize_chunk, then store_chunk_summary
ChunkOutcomes == ReplyOutcomes \cup {FailOutcome, RaiseOutcome}
SummarizeChunk(outcome, db_fault) ==
  /\ LoopAtBoundary
  /\ ~SkipsBoundary
  /\ IF outcome.kind = "raise"
       THEN /\ db_fault = FALSE
            /\ Finish(generate_summary(NoText, 0, TRUE))
            /\ last_store' = NoStore
            /\ UNCHANGED <<calls, chunk_summaries>>
       ELSE LET summary == summarize_chunk(CurChunkMessages, loop.i - 1,
                                           Len(loop.boundaries), outcome)
                stores == IsTruthy(summary) /\ loop.should_cache /\ CurBoundary.is_complete
                st == cache_store_chunk_summary(chunk_summaries, req.chat_id, CurBoundary,
                                                summary, db_fault)
            IN /\ db_fault => stores
               /\ calls' = [calls EXCEPT !.chunk = @ + 1]
               /\ loop' = [loop EXCEPT !.i = @ + 1,
                             !.summaries = IF IsTruthy(summary) THEN Append(@, summary) ELSE @]
               /\ chunk_summaries' = IF stores THEN st.rows ELSE chunk_summaries
               /\ last_store' = IF stores THEN st.log ELSE NoStore
               /\ UNCHANGED <<pc, all_summaries, meta, result>>
  /\ UNCHANGED <<req, covered, messages, allowed_groups>>
  /\ UNCHANGED <<cb_vars, cfg_vars, san_vars, ext_vars>>

\* the loop returns: to _generate_deterministic_chunked_summary (line 888), to
\* the cache-aware summary (lines 696, 741) or to _process_uncovered_range
ChunksDone ==
  /\ pc = "chunks"
  /\ loop.i > Len(loop.boundaries)
  /\ LET got == IF loop.should_cache THEN loop.summaries
                ELSE <<CombineUncovered(loop.summaries)>>
     IN IF loop.cont = "deterministic"
          THEN Goto(Target("meta", NoLoop, <<>>,
                           [groups |-> <<>>, i |-> 0, summaries |-> loop.summaries]))
        ELSE IF loop.cont = "before"
          THEN Goto(AfterPhase(InsertAtBeginning(got, all_summaries), covered))
          ELSE Goto(Gather(all_summaries \o got))
  /\ UNCHANGED <<req, covered, result, calls>>
  /\ last_store' = NoStore
  /\ UNCHANGED <<cb_vars, cfg_vars, db_vars, san_vars, ext_vars>>

\* _process_uncovered_range, lines 847-849: a small range is summarized directly
UncoveredDirect(outcome) ==
  /\ pc = "uncovered"
  /\ Len(loop.messages) <= threshold
  /\ IF outcome.kind = "raise"
       THEN Finish(generate_summary(NoText, 0, TRUE)) /\ UNCHANGED calls
       ELSE LET summary == summarize_chunk(loop.messages, Len(all_summaries),
                                           Len(all_summaries) + 1, outcome)
            IN /\ calls' = [calls EXCEPT !.chunk = @ + 1]
               /\ IF loop.cont = "before"
                    THEN Goto(AfterPhase(InsertAtBeginning(<<summary>>, all_summaries), covered))
                    ELSE Goto(Gather(all_summaries \o <<summary>>))
               /\ UNCHANGED result
  /\ UNCHANGED <<req, covered, last_store>>
  /\ UNCHANGED <<cb_vars, cfg_vars, db_vars, san_vars, ext_vars>>

\* _process_uncovered_range, lines 850-859: a larger one is chunked, uncached
UncoveredChunked ==
  /\ pc = "uncovered"
  /\ Len(loop.messages) > threshold
  /\ Goto(Target("chunks",
            LoopFrame(loop.messages,
                      calculate_chunk_boundaries(loop.messages, chunk_size, overlap),
                      FALSE, loop.cont),
            all_summaries, NoMeta))
  /\ UNCHANGED <<req, covered, result, calls, last_store>>
  /\ UNCHANGED <<cb_vars, cfg_vars, db_vars, san_vars, ext_vars>>

\* _apply_progressive_summarization, lines 989-1027: one meta-chunk
ReduceOutcomes == {OkOutcome, FailOutcome}
ReduceMetaChunk(outcome) ==
  /\ pc = "reduce"
  /\ meta.i <= Len(meta.groups)
  /\ LET meta_chunk == meta.groups[meta.i]
         meta_summary ==
           IF outcome.kind = "ok" THEN Text("section", <<>>, meta_chunk, outcome.chars)
           ELSE Text("joined", <<>>, meta_chunk, SeqChars(meta_chunk))
         meta_summaries == Append(meta.summaries, meta_summary)
     IN /\ calls' = [calls EXCEPT !.reduce = @ + 1]
        /\ IF meta.i = Len(meta.groups)
             THEN /\ pc' = "meta"
                  /\ meta' = [groups |-> <<>>, i |-> 0, summaries |-> meta_summaries]
             ELSE /\ pc' = "reduce"
                  /\ meta' = [meta EXCEPT !.i = @ + 1, !.summaries = meta_summaries]
  /\ UNCHANGED <<req, all_summaries, covered, loop, result, last_store>>
  /\ UNCHANGED <<cb_vars, cfg_vars, db_vars, san_vars, ext_vars>>

\* _create_meta_summary, then generate_summary's sanitize_html
MetaOutcomes == {OkOutcome, [kind |-> "empty", chars |-> 0], FailOutcome, RaiseOutcome}
ValidSummaries(chunk_summaries_arg) == SelectSeq(chunk_summaries_arg, IsValidSummary)
CreateMetaSummary(outcome) ==
  /\ pc = "meta"
  /\ LET valid_summaries == ValidSummaries(meta.summaries)
     IN IF meta.summaries = <<>>
          THEN /\ outcome = OkOutcome
               /\ Finish(generate_summary(Text("no_content", <<>>, <<>>, 1), 0, FALSE))
               /\ UNCHANGED calls
        ELSE IF valid_summaries = <<>>
          THEN /\ outcome = OkOutcome
               /\ Finish(generate_summary(Text("unable", <<>>, <<>>, 1), 0, FALSE))
               /\ UNCHANGED calls
        ELSE IF outcome.kind = "raise"
          THEN Finish(generate_summary(NoText, 0, TRUE)) /\ UNCHANGED calls
        ELSE /\ calls' = [calls EXCEPT !.meta = @ + 1]
             /\ Finish(generate_summary(
                  IF outcome.kind = "ok" THEN Text("meta", <<>>, valid_summaries, outcome.chars)
                  ELSE IF outcome.kind = "empty" THEN EmptyText
                  ELSE Text("fallback", <<>>, valid_summaries, SeqChars(valid_summaries)),
                  0, FALSE))
  /\ UNCHANGED <<req, covered, last_store>>
  /\ UNCHANGED <<cb_vars, cfg_vars, db_vars, san_vars, ext_vars>>

\* handle_summary_command, lines 52-54: the reply is sent, the handler ends
Return ==
  /\ pc = "done"
  /\ pc' = "idle" /\ req' = NoReq /\ result' = NoResult /\ calls' = NoCalls
  /\ covered' = NoCovered /\ last_store' = NoStore
  /\ UNCHANGED <<all_summaries, loop, meta>>
  /\ UNCHANGED <<cb_vars, cfg_vars, db_vars, san_vars, ext_vars>>

Next ==
  \/ \E c \in Chats : AllowGroup(c)
  \/ \E c \in Chats : DenyGroup(c)
  \/ \E c \in Chats, id \in 1..MaxMsgId : HandleMessage(c, id)
  \/ \E c \in Chats, k \in 1..(MaxMsgId + 1) : StartSummary(c, k)
  \/ \E o \in SimpleOutcomes : SimpleSummary(o)
  \/ \E f \in BOOLEAN : LookupCachedChunks(f)
  \/ SkipChunk
  \/ \E o \in ChunkOutcomes, f \in BOOLEAN : SummarizeChunk(o, f)
  \/ ChunksDone
  \/ \E o \in ChunkOutcomes : UncoveredDirect(o)
  \/ UncoveredChunked
  \/ \E o \in ReduceOutcomes : ReduceMetaChunk(o)
  \/ \E o \in MetaOutcomes : CreateMetaSummary(o)
  \/ Return

Spec == Init /\ [][Next]_vars

\* the same program when storage never fails: every read and write of the
\* chunk table succeeds
NextSequential ==
  \/ \E c \in Chats : AllowGroup(c)
  \/ \E c \in Chats : DenyGroup(c)
  \/ \E c \in Chats, id \in 1..MaxMsgId : HandleMessage(c, id)
  \/ \E c \in Chats, k \in 1..(MaxMsgId + 1) : StartSummary(c, k)
  \/ \E o \in SimpleOutcomes : SimpleSummary(o)
  \/ LookupCachedChunks(FALSE)
  \/ SkipChunk
  \/ \E o \in ChunkOutcomes : SummarizeChunk(o, FALSE)
  \/ ChunksDone
  \/ \E o \in ChunkOutcomes : UncoveredDirect(o)
  \/ UncoveredChunked
  \/ \E o \in ReduceOutcomes : ReduceMetaChunk(o)
  \/ \E o \in MetaOutcomes : CreateMetaSummary(o)
  \/ Return

SpecSequential == Init /\ [][NextSequential]_vars

(***************************************************************************)
(* SpecBackfill: ensure_chunks_processed, the pass that turns uncovered    *)
(* messages into stored chunks.  SuntoBot.run calls it for every chat at   *)
(* startup and handle_message after a saved message; the method itself is  *)
(* specified as the loop "compute the uncovered messages; return if fewer  *)
(* than one chunk; dispatch up to MAX_PARALLEL_CHUNKS whole chunks, oldest  *)
(* first; a failed task commits nothing; repeat".  The dispatched tasks    *)
(* are joined before the next iteration and their ranges are disjoint, so  *)
(* one iteration is one step.                                              *)
(***************************************************************************)
MAX_PARALLEL_CHUNKS == 2

\* the messages of the chat that no stored chunk's range contains, ascending
coverage_uncovered_mut(rows, chat_id) ==
  SelectSeq(ChatMessages(chat_id), LAMBDA m :
     ~\E r \in rows : r.chat_id = chat_id /\ r.start_message_id <= m)
coverage_uncovered(rows, chat_id) ==
  SelectSeq(ChatMessages(chat_id), LAMBDA m :
     ~\E r \in rows : /\ r.chat_id = chat_id
                      /\ r.start_message_id <= m /\ m <= r.end_message_id)

\* the loop's exit test: fewer uncovered messages than one chunk
BfTerminatesEarly(n) == TRUE
BfTerminates(n) == n < chunk_size

\* the oldest parallelism * S uncovered messages, cut into slices of S
BfSlices(unc) ==
  [i \in 1..Min(Len(unc) \div chunk_size, MAX_PARALLEL_CHUNKS) |->
     SubSeq(unc, (i - 1) * chunk_size + 1, i * chunk_size)]

\* the tasks of one iteration: the completion call, then the store
RECURSIVE BfCommit(_, _, _, _)
BfCommit(rows, chat_id, slices, outs) ==
  IF slices = <<>> THEN rows
  ELSE LET msgs == Head(slices)
           boundary == ChunkBoundary(msgs[1], msgs[Len(msgs)], Len(msgs), TRUE)
           summary == Text("chunk", msgs, <<>>, OkOutcome.chars)
           stored == IF Head(outs) = "fail" THEN rows
                     ELSE cache_store_chunk_summary(rows, chat_id, boundary, summary,
                                                    Head(outs) = "put_fail").rows
       IN BfCommit(stored, chat_id, Tail(slices), Tail(outs))

BackfillInit ==
  /\ chunk_size \in 1..MaxChunkSize /\ overlap = 0 /\ threshold = 0
  /\ DbQuiet /\ ReqQuiet /\ CbQuiet /\ SanQuiet /\ ExtQuiet

BackfillStart(c) ==
  /\ bf_pc = "idle"
  /\ bf_pc' = "loop" /\ bf_chat' = c /\ bf_committed' = 0 /\ bf_round' = NoRound
  /\ UNCHANGED <<bf_last, cb_vars, cfg_vars, db_vars, req_vars, san_vars>>
  /\ UNCHANGED <<lk_vars, ti_vars, upd, ops_vars>>

\* one iteration whose tasks end as outs says (unc, slices and rows are bound
\* variables so that each is computed once)
BackfillRound(outs) ==
  /\ bf_pc = "loop"
  /\ \E unc \in {coverage_uncovered(chunk_summaries, bf_chat)} :
     \E slices \in {BfSlices(unc)} :
     \E rows \in {BfCommit(chunk_summaries, bf_chat, slices, outs)} :
        /\ Len(unc) >= chunk_size
        /\ chunk_summaries' = rows
        /\ bf_committed' = bf_committed + Cardinality(rows \ chunk_summaries)
        /\ bf_round' = [uncovered |-> unc, dispatched |-> slices,
                        failed |-> Cardinality({i \in 1..Len(slices) : outs[i] # "ok"}),
                        committed |-> rows \ chunk_summaries]
  /\ UNCHANGED <<bf_pc, bf_chat, bf_last, messages, allowed_groups>>
  /\ UNCHANGED <<cb_vars, cfg_vars, req_vars, san_vars, lk_vars, ti_vars, upd, ops_vars>>

TaskOutcomes ==
  [1..Len(BfSlices(coverage_uncovered(chunk_summaries, bf_chat))) -> {"ok", "fail", "put_fail"}]

BackfillIterate == \E outs \in TaskOutcomes : BackfillRound(outs)

BackfillReturn ==
  /\ bf_pc = "loop"
  /\ BfTerminates(Len(coverage_uncovered(chunk_summaries, bf_chat)))
  /\ bf_pc' = "done"
  /\ UNCHANGED <<bf_chat, bf_committed, bf_round, bf_last>>
  /\ UNCHANGED <<cb_vars, cfg_vars, db_vars, req_vars, san_vars, lk_vars, ti_vars, upd, ops_vars>>

\* the caller takes the count; the next update may be handled
BackfillDone ==
  /\ bf_pc = "done"
  /\ bf_pc' = "idle" /\ bf_chat' = 0 /\ bf_committed' = 0 /\ bf_round' = NoRound
  /\ bf_last' = [ran |-> TRUE, chat_id |-> bf_chat, messages |-> ChatMessages(bf_chat),
                 rows |-> chunk_summaries]
  /\ UNCHANGED <<cb_vars, cfg_vars, db_vars, req_vars, san_vars, lk_vars, ti_vars, upd, ops_vars>>

BackfillNext ==
  \* updates are handled between two passes, never during one
  \/ \E c \in Chats : bf_pc = "idle" /\ AllowGroup(c)
  \/ \E c \in Chats, id \in 1..MaxMsgId : bf_pc = "idle" /\ HandleMessage(c, id)
  \/ \E c \in Chats : BackfillStart(c)
  \/ BackfillIterate
  \/ BackfillReturn
  \/ BackfillDone

SpecBackfill == BackfillInit /\ [][BackfillNext]_vars

\* the completion service eventually succeeds: an iteration in which at least
\* one task succeeds is taken if it stays possible, and so is the return
BackfillProgress ==
  \E outs \in TaskOutcomes : (\E i \in DOMAIN outs : outs[i] = "ok") /\ BackfillRound(outs)
SpecBackfillFair ==
  SpecBackfill /\ WF_vars(BackfillProgress) /\ WF_vars(BackfillReturn)

(***************************************************************************)
(* SpecGate: the handlers of group updates up to what they do for the      *)
(* chat: handle_message, handle_summary_command, handle_start_command and  *)
(* handle_help_command each look the chat up in the allow-list first.  upd *)
(* records the update handled last: whether a message was stored for it, a *)
(* reply sent, a completion call made, the chunk processing triggered.     *)
(***************************************************************************)
Update(kind, chat_id, allowed, replied, called, backfill) ==
  [serial |-> 1 - upd.serial, kind |-> kind, chat_id |-> chat_id, allowed |-> allowed,
   replied |-> replied, called |-> called, backfill |-> backfill]

GateInit ==
  /\ DbQuiet /\ CfgQuiet /\ ReqQuiet /\ CbQuiet /\ SanQuiet /\ ExtQuiet

\* message_handler.py:27-158; mention: the text mentions the bot, which is
\* answered with a generated reply
handle_message(c, id, mention) ==
  /\ \A m \in messages : m.chat_id = c => m.message_id < id
  /\ IF ~is_group_allowed(c)
       THEN /\ upd' = Update("message", c, FALSE, FALSE, FALSE, FALSE)
            /\ UNCHANGED messages
       ELSE /\ messages' = messages \cup {[chat_id |-> c, message_id |-> id]}
            /\ upd' = Update("message", c, TRUE, mention, mention, id % 10 = 0)
  /\ UNCHANGED <<chunk_summaries, allowed_groups>>
  /\ UNCHANGED <<cb_vars, cfg_vars, req_vars, san_vars, bf_vars, lk_vars, ti_vars, ops_vars>>

\* command_handler.py:22-58: the loading message, then the summary, which
\* needs a completion call unless there is nothing to summarize
handle_summary_command(c, called) ==
  /\ upd' = IF ~is_group_allowed(c) THEN Update("summary", c, FALSE, FALSE, FALSE, FALSE)
            ELSE Update("summary", c, TRUE, TRUE, called, FALSE)
  /\ UNCHANGED <<cb_vars, cfg_vars, db_vars, req_vars, san_vars, bf_vars, lk_vars, ti_vars, ops_vars>>

\* command_handler.py:90-114: the welcome text; handle_help_command calls
\* handle_start_command
handle_start_command(c, kind) ==
  /\ upd' = IF ~is_group_allowed(c) THEN Update(kind, c, FALSE, FALSE, FALSE, FALSE)
            ELSE Update(kind, c, TRUE, TRUE, FALSE, FALSE)
  /\ UNCHANGED <<cb_vars, cfg_vars, db_vars, req_vars, san_vars, bf_vars, lk_vars, ti_vars, ops_vars>>

GateNext ==
  \/ \E c \in {1, 2} : AllowGroup(c)
  \/ \E c \in {1, 2} : DenyGroup(c)
  \/ \E c \in {1, 2}, id \in {9, 10}, mention \in BOOLEAN : handle_message(c, id, mention)
  \/ \E c \in {1, 2}, called \in BOOLEAN : handle_summary_command(c, called)
  \/ \E c \in {1, 2}, kind \in {"start", "help"} : handle_start_command(c, kind)

SpecGate == GateInit /\ [][GateNext]_vars

(***************************************************************************)
(* SpecAdmin: the admin commands /allow, /deny and /list next to the       *)
(* handlers every user can reach.                                          *)
(***************************************************************************)
\* config.py:15-19: the ids read from the environment; user 2 is no admin
ADMIN_IDS == {1}
Users == {1, 2}
ChatTypes == {"private", "group", "supergroup", "channel"}

\* command_handler.py:116-118
_is_admin_any(user_id) == TRUE
_is_admin(user_id) == user_id \in ADMIN_IDS

\* database.py:180-211 with an insert in place of the update of an existing row
allow_group_inserting(groups, chat_id, db_fault) ==
  IF db_fault THEN [groups |-> groups, raised |-> TRUE]
  ELSE [groups |-> groups \cup {[chat_id |-> chat_id, is_active |-> TRUE]},
        raised |-> FALSE]
\* database.py:180-211; a fault is rolled back and raised again
allow_group(groups, chat_id, db_fault) ==
  IF db_fault THEN [groups |-> groups, raised |-> TRUE]
  ELSE [groups |->
          IF \E g \in groups : g.chat_id = chat_id
            THEN {IF g.chat_id = chat_id THEN [g EXCEPT !.is_active = TRUE] ELSE g
                    : g \in groups}
            ELSE groups \cup {[chat_id |-> chat_id, is_active |-> TRUE]},
        raised |-> FALSE]

\* database.py:213-232
deny_group(groups, chat_id, db_fault) ==
  IF db_fault THEN [groups |-> groups, found |-> FALSE, raised |-> TRUE]
  ELSE IF \E g \in groups : g.chat_id = chat_id
    THEN [groups |-> {IF g.chat_id = chat_id THEN [g EXCEPT !.is_active = FALSE] ELSE g
                        : g \in groups},
          found |-> TRUE, raised |-> FALSE]
    ELSE [groups |-> groups, found |-> FALSE, raised |-> FALSE]

\* database.py:248-260
get_allowed_groups(groups) == {g \in groups : g.is_active}

Command(cmd, chat_type, chat_id, user_id, reply) ==
  [serial |-> 1 - adm.serial, cmd |-> cmd, chat_type |-> chat_type, chat_id |-> chat_id,
   user_id |-> user_id, reply |-> reply]

AdminFrame ==
  /\ UNCHANGED <<messages, chunk_summaries>>
  /\ UNCHANGED <<cb_vars, cfg_vars, req_vars, san_vars, bf_vars, lk_vars, ti_vars, upd, wr, rc, al, tr>>

AdminInit ==
  /\ DbQuiet /\ CfgQuiet /\ ReqQuiet /\ CbQuiet /\ SanQuiet /\ ExtQuiet

\* command_handler.py:120-154
handle_allow_command(chat_type, chat_id, user_id, db_fault) ==
  /\ IF chat_type \notin {"group", "supergroup"}
       THEN /\ adm' = Command("allow", chat_type, chat_id, user_id, "groups_only")
            /\ UNCHANGED allowed_groups
     ELSE IF ~_is_admin(user_id)
       THEN /\ adm' = Command("allow", chat_type, chat_id, user_id, "admins_only")
            /\ UNCHANGED allowed_groups
     ELSE LET r == allow_group(allowed_groups, chat_id, db_fault)
          IN /\ allowed_groups' = r.groups
             /\ adm' = Command("allow", chat_type, chat_id, user_id,
                               IF r.raised THEN "failed" ELSE "allowed")
  /\ AdminFrame

\* command_handler.py:156-194; arg: the text after /deny is "usage" for a wrong
\* number of words, "invalid" for a word that is no number, or the "number"
\* group_id
handle_deny_command(chat_type, chat_id, user_id, arg, group_id, db_fault) ==
  /\ IF chat_type # "private"
       THEN /\ adm' = Command("deny", chat_type, chat_id, user_id, "private_only")
            /\ UNCHANGED allowed_groups
     ELSE IF ~_is_admin(user_id)
       THEN /\ adm' = Command("deny", chat_type, chat_id, user_id, "admins_only")
            /\ UNCHANGED allowed_groups
     ELSE IF arg \in {"usage", "invalid"}
       THEN /\ adm' = Command("deny", chat_type, chat_id, user_id, arg)
            /\ UNCHANGED allowed_groups
     ELSE LET r == deny_group(allowed_groups, group_id, db_fault)
          IN /\ allowed_groups' = r.groups
             /\ adm' = Command("deny", chat_type, chat_id, user_id,
                               IF r.raised THEN "failed"
                               ELSE IF r.found THEN "denied" ELSE "not_found")
  /\ AdminFrame

\* command_handler.py:196-233
handle_list_command(chat_type, chat_id, user_id, db_fault) ==
  /\ adm' = Command("list", chat_type, chat_id, user_id,
                    IF chat_type # "private" THEN "private_only"
                    ELSE IF ~_is_admin(user_id) THEN "admins_only"
                    ELSE IF db_fault THEN "failed"
                    ELSE IF get_allowed_groups(allowed_groups) = {} THEN "no_groups"
                    ELSE "list")
  /\ UNCHANGED allowed_groups
  /\ AdminFrame

\* a private chat has the id of its user; the group chats are 1 and 2
AdminNext ==
  \/ \E t \in ChatTypes, c \in {1, 2}, u \in Users, f \in BOOLEAN :
       handle_allow_command(t, c, u, f)
  \/ \E t \in ChatTypes, u \in Users, a \in {"usage", "invalid", "number"},
        g \in {1, 2, 3}, f \in BOOLEAN : handle_deny_command(t, u, u, a, g, f)
  \/ \E t \in ChatTypes, u \in Users, f \in BOOLEAN : handle_list_command(t, u, u, f)
  \/ \E c \in {1, 2} : handle_message(c, 9, FALSE)
  \/ \E c \in {1, 2} : handle_summary_command(c, TRUE)
  \/ \E c \in {1, 2} : handle_start_command(c, "start")

SpecAdmin == AdminInit /\ [][AdminNext]_vars

(***************************************************************************)
(* SpecWrite: the writes to storage, each of which can fail in the         *)
(* database, and what becomes of the failure in the caller.                *)
(***************************************************************************)
\* database.py:93-126: add and commit, or roll back and raise
save_message(rows, chat_id, message_id, db_fault) ==
  IF db_fault THEN [rows |-> rows, raised |-> TRUE]
  ELSE [rows |-> rows \cup {[chat_id |-> chat_id, message_id |-> message_id]},
        raised |-> FALSE]

\* what the caller of a storage operation did with an exception: handled is
\* "logged" when it only wrote a log line, "reported" when it told the user,
\* "raised" when it let the exception go on to its own caller
Write(op, db_raised, caught_by, handled) ==
  [serial |-> 1 - wr.serial, op |-> op, db_raised |-> db_raised,
   caught_by |-> IF db_raised THEN caught_by ELSE "none",
   handled |-> IF db_raised THEN handled ELSE "none"]

WriteFrame ==
  /\ UNCHANGED <<cb_vars, cfg_vars, req_vars, san_vars, bf_vars, lk_vars, ti_vars, upd, adm, rc, al, tr>>

WriteInit ==
  /\ DbQuiet /\ CfgQuiet /\ ReqQuiet /\ CbQuiet /\ SanQuiet /\ ExtQuiet

\* message_handler.py:135-151: the save of handle_message, inside try/except
HandleMessageSave(c, id, db_fault) ==
  /\ is_group_allowed(c)
  /\ \A m \in messages : m.chat_id = c => m.message_id < id
  /\ LET r == save_message(messages, c, id, db_fault)
     IN /\ messages' = r.rows
        /\ wr' = Write("save_message", r.raised, "handle_message", "logged")
  /\ UNCHANGED <<chunk_summaries, allowed_groups>>
  /\ WriteFrame

\* summary_engine.py:159-178, as called from _process_chunks_with_boundaries
\* for the complete chunk of the messages a..b
StoreChunkSummary(c, a, b, db_fault) ==
  /\ a <= b
  /\ \A id \in a..b : [chat_id |-> c, message_id |-> id] \in messages
  /\ LET st == cache_store_chunk_summary(chunk_summaries, c,
                 ChunkBoundary(a, b, b - a + 1, TRUE),
                 Text("chunk", [i \in 1..(b - a + 1) |-> a + i - 1], <<>>, 4), db_fault)
     IN /\ chunk_summaries' = st.rows
        /\ wr' = Write("store_chunk_summary", st.log.db_raised,
                       "ChunkCacheManager.store_chunk_summary",
                       IF st.log.surfaced THEN "raised" ELSE "logged")
  /\ UNCHANGED <<messages, allowed_groups>>
  /\ WriteFrame

\* command_handler.py:139-154: allow_group inside try/except for an admin in
\* the group c; the failure is answered with "Failed to allow this group."
AllowGroupWrite(c, db_fault) ==
  /\ LET r == allow_group(allowed_groups, c, db_fault)
     IN /\ allowed_groups' = r.groups
        /\ wr' = Write("allow_group", r.raised, "handle_allow_command", "reported")
  /\ UNCHANGED <<messages, chunk_summaries>>
  /\ WriteFrame

\* command_handler.py:172-194: deny_group inside try/except for an admin in a
\* private chat; the failure is answered with "Failed to deny group."
DenyGroupWrite(c, db_fault) ==
  /\ LET r == deny_group(allowed_groups, c, db_fault)
     IN /\ allowed_groups' = r.groups
        /\ wr' = Write("deny_group", r.raised, "handle_deny_command", "reported")
  /\ UNCHANGED <<messages, chunk_summaries>>
  /\ WriteFrame

WriteNext ==
  \/ \E c \in {1, 2}, id \in 1..2, f \in BOOLEAN : HandleMessageSave(c, id, f)
  \/ \E c \in {1, 2}, a \in 1..2, b \in 1..2, f \in BOOLEAN : StoreChunkSummary(c, a, b, f)
  \/ \E c \in {1, 2}, f \in BOOLEAN : AllowGroupWrite(c, f)
  \/ \E c \in {1, 2}, f \in BOOLEAN : DenyGroupWrite(c, f)

SpecWrite == WriteInit /\ [][WriteNext]_vars

(***************************************************************************)
(* SpecAllow: sequences of DatabaseManager.allow_group and deny_group      *)
(* calls, each of which may hit a storage failure.  al keeps the last call *)
(* and, for every chat, which call was the last that succeeded.            *)
(***************************************************************************)
Call(op, chat_id, succeeded) ==
  [serial |-> 1 - al.serial, op |-> op, chat_id |-> chat_id, succeeded |-> succeeded,
   prev |-> al.last[chat_id],
   last |-> IF succeeded THEN [al.last EXCEPT ![chat_id] = op] ELSE al.last]

AllowFrame ==
  /\ UNCHANGED <<messages, chunk_summaries>>
  /\ UNCHANGED <<cb_vars, cfg_vars, req_vars, san_vars, bf_vars, lk_vars, ti_vars, upd, adm, wr, rc, tr>>

AllowInit ==
  /\ al = NoCall /\ adm = NoCommand /\ wr = NoWrite /\ tr = NoRange
  /\ rc = [p \in Invocations |-> IdleInvocation]
  /\ DbQuiet /\ CfgQuiet /\ ReqQuiet /\ CbQuiet /\ SanQuiet
  /\ BfQuiet /\ LkQuiet /\ TiQuiet /\ upd = NoUpdate

\* database.py:180-211: returns None, or rolls back and raises
AllowGroupCall(c, db_fault) ==
  /\ LET r == allow_group(allowed_groups, c, db_fault)
     IN /\ allowed_groups' = r.groups
        /\ al' = Call("allow", c, ~r.raised)
  /\ AllowFrame

\* database.py:213-232: returns True or False, or rolls back and raises
DenyGroupCall(c, db_fault) ==
  /\ LET r == deny_group(allowed_groups, c, db_fault)
     IN /\ allowed_groups' = r.groups
        /\ al' = Call("deny", c, r.found /\ ~r.raised)
  /\ AllowFrame

AllowNext ==
  \/ \E c \in Groups, f \in BOOLEAN : AllowGroupCall(c, f)
  \/ \E c \in Groups, f \in BOOLEAN : DenyGroupCall(c, f)

SpecAllow == AllowInit /\ [][AllowNext]_vars

(***************************************************************************)
(* SpecRange: the summary command and the time range it summarizes.  The   *)
(* messages carry their sender; they are stored in the order of their ids, *)
(* which stands for the order of their timestamps.                         *)
(***************************************************************************)
None == [is_none |-> TRUE, value |-> 0]
Some(v) == [is_none |-> FALSE, value |-> v]
\* the arguments of the command: none, "0h", "1h", "2h" (time_utils.py:31-36)
TimeIntervals == {None, Some(0), Some(1), Some(2)}
\* bool(timedelta): a timedelta of zero is false
IsTruthyInterval(time_interval) == ~time_interval.is_none /\ time_interval.value # 0

\* database.py:297-312
get_last_user_message_time(rows, chat_id, user_id) ==
  LET own == {m \in rows : m.chat_id = chat_id /\ m.user_id = user_id}
  IN IF own = {} THEN None ELSE Some(SetMax({m.message_id : m \in own}))
\* database.py:128-143: the messages of the chat from since_timestamp on
get_messages_since(rows, chat_id, since_timestamp) ==
  {m \in rows : m.chat_id = chat_id /\ m.message_id >= since_timestamp}

\* command_handler.py:70-88; ago: where "now minus the interval" falls among
\* the stored messages.  Line 77 calls .replace on what
\* get_last_user_message_time returned, which raises AttributeError on None.
_determine_time_range(rows, time_interval, chat_id, user_id, ago) ==
  IF IsTruthyInterval(time_interval)
    THEN [raised |-> FALSE, since |-> ago, desc |-> "interval"]
  ELSE LET last_message_time == get_last_user_message_time(rows, chat_id, user_id)
       IN IF last_message_time.is_none
            THEN [raised |-> TRUE, since |-> 0, desc |-> "none"]
            ELSE [raised |-> FALSE, since |-> last_message_time.value,
                  desc |-> "since_last"]

RangeOf(chat_id, user_id, time_interval, desc, since, selected, reply) ==
  [serial |-> 1 - tr.serial, chat_id |-> chat_id, user_id |-> user_id,
   time_interval |-> IF time_interval.is_none THEN "None" ELSE "given",
   desc |-> desc, since |-> since, selected |-> selected, reply |-> reply]

RangeFrame ==
  /\ UNCHANGED chunk_summaries
  /\ UNCHANGED <<cb_vars, cfg_vars, req_vars, san_vars, bf_vars, lk_vars, ti_vars, upd, adm, wr, rc, al>>

RangeInit ==
  /\ tr = NoRange /\ adm = NoCommand /\ wr = NoWrite /\ al = NoCall
  /\ rc = [p \in Invocations |-> IdleInvocation]
  /\ DbQuiet /\ CfgQuiet /\ ReqQuiet /\ CbQuiet /\ SanQuiet
  /\ BfQuiet /\ LkQuiet /\ TiQuiet /\ upd = NoUpdate

\* command_handler.py:120-154 -> database.py:180-211
RangeAllowGroup(c) ==
  /\ allowed_groups' = allow_group(allowed_groups, c, FALSE).groups
  /\ UNCHANGED <<messages, tr>>
  /\ RangeFrame

\* message_handler.py:27-151 -> database.py:93-126: a message of an allowed
\* group is stored with its sender
RangeSaveMessage(c, u, id) ==
  /\ is_group_allowed(c)
  /\ \A m \in messages : m.chat_id = c => m.message_id < id
  /\ messages' = messages \cup {[chat_id |-> c, message_id |-> id, user_id |-> u]}
  /\ UNCHANGED <<allowed_groups, tr>>
  /\ RangeFrame

\* command_handler.py:22-58: the range and the messages are computed inside
\* the try; an exception there ends in "Failed to generate summary."
RangeSummaryCommand(c, u, time_interval, ago) ==
  /\ IF ~is_group_allowed(c)
       THEN tr' = RangeOf(c, u, time_interval, "none", 0, {}, "none")
       ELSE LET r == _determine_time_range(messages, time_interval, c, u, ago)
            IN IF r.raised
                 THEN tr' = RangeOf(c, u, time_interval, "none", 0, {}, "failed")
                 ELSE tr' = RangeOf(c, u, time_interval, r.desc, r.since,
                                    get_messages_since(messages, c, r.since), "summary")
  /\ UNCHANGED <<messages, allowed_groups>>
  /\ RangeFrame

RangeNext ==
  \/ \E c \in Chats : RangeAllowGroup(c)
  \/ \E c \in Chats, u \in Users, id \in 1..MaxRangeMsgs : RangeSaveMessage(c, u, id)
  \/ \E c \in Chats, u \in Users, t \in TimeIntervals, ago \in 1..(MaxRangeMsgs + 1) :
        RangeSummaryCommand(c, u, t, ago)

SpecRange == RangeInit /\ [][RangeNext]_vars

(***************************************************************************)
(* SpecRace: two invocations that commit chunks for the same chat run      *)
(* interleaved.  An invocation gives up control only while it awaits a     *)
(* completion call: it reads the cache and computes its boundaries in one  *)
(* step, and stores a summary in the step in which its call returns.       *)
(***************************************************************************)
RaceChat == CHOOSE c \in Chats : TRUE
RaceFrame ==
  /\ UNCHANGED <<messages, allowed_groups>>
  /\ UNCHANGED <<cb_vars, cfg_vars, req_vars, san_vars, bf_vars, lk_vars, ti_vars, upd, adm, wr, al, tr>>

RaceInit ==
  /\ chunk_size \in 1..MaxChunkSize /\ overlap \in 0..(chunk_size - 1) /\ threshold = 0
  /\ \E n \in 1..MaxRaceMsgs :
       messages = {[chat_id |-> RaceChat, message_id |-> id] : id \in 1..n}
  /\ chunk_summaries = {} /\ allowed_groups = {}
  /\ ReqQuiet /\ CbQuiet /\ SanQuiet /\ ExtQuiet

\* summary_engine.py:600-628 and 710-741: the lookup, then the boundaries of
\* the messages that no cached chunk reaches; lines 803-809 pass over the
\* incomplete ones without a call
RaceBoundaries(rows) ==
  LET msgs == ChatMessages(RaceChat)
      cached == cache_get_cached_chunks_for_range(rows, RaceChat, msgs[1], msgs[Len(msgs)],
                                                  FALSE)
      covered_end == SetMax({cached[i].end_message_id : i \in 1..Len(cached)})
      uncovered_messages ==
        IF cached = <<>> THEN msgs ELSE SelectSeq(msgs, LAMBDA m : m > covered_end)
      boundaries ==
        IF cached = <<>> \/ Len(uncovered_messages) >= chunk_size
          THEN calculate_chunk_boundaries(uncovered_messages, chunk_size, overlap)
          ELSE <<>>
  IN [messages |-> uncovered_messages,
      todo |-> SelectSeq(boundaries, LAMBDA b : b.is_complete)]

RaceStart(p) ==
  /\ rc[p].pc = "idle"
  /\ \E r \in {RaceBoundaries(chunk_summaries)} :
       rc' = [rc EXCEPT ![p] = [pc |-> IF r.todo = <<>> THEN "done" ELSE "await",
                                messages |-> r.messages, todo |-> r.todo, i |-> 1,
                                last |-> NoStore]]
  /\ UNCHANGED chunk_summaries
  /\ RaceFrame

\* summary_engine.py:826-839: the call of boundary i returns, its summary is
\* stored, the next call is awaited
RaceOutcomes == {[kind |-> "ok", chars |-> c] : c \in {4, 5}}
                  \cup {[kind |-> "empty", chars |-> 0], FailOutcome}
RaceResume(p, outcome) ==
  /\ rc[p].pc = "await"
  /\ LET boundary == rc[p].todo[rc[p].i]
         summary == summarize_chunk(get_messages_for_boundary(rc[p].messages, boundary),
                                    rc[p].i - 1, Len(rc[p].todo), outcome)
         st == cache_store_chunk_summary(chunk_summaries, RaceChat, boundary, summary, FALSE)
     IN /\ chunk_summaries' = IF IsTruthy(summary) THEN st.rows ELSE chunk_summaries
        /\ rc' = [rc EXCEPT ![p] = [@ EXCEPT
                    !.pc = IF rc[p].i = Len(rc[p].todo) THEN "done" ELSE "await",
                    !.i = @ + 1,
                    !.last = IF IsTruthy(summary) THEN st.log ELSE NoStore]]
  /\ RaceFrame

\* the invocation returns; another one may start
RaceReturn(p) ==
  /\ rc[p].pc = "done"
  /\ rc' = [rc EXCEPT ![p] = IdleInvocation]
  /\ UNCHANGED chunk_summaries
  /\ RaceFrame

RaceNext ==
  \/ \E p \in Invocations : RaceStart(p)
  \/ \E p \in Invocations, o \in RaceOutcomes : RaceResume(p, o)
  \/ \E p \in Invocations : RaceReturn(p)

SpecRace == RaceInit /\ [][RaceNext]_vars

(***************************************************************************)
(* SpecLookup: DatabaseManager.get_cached_chunks_for_range on a table of   *)
(* up to MaxStoredRows rows of two chats, with ranges that may overlap, and *)
(* a query range; ChunkCacheManager copies the rows it gets in their order. *)
(***************************************************************************)
StoredRows ==
  {ChunkRow(generate_chunk_id(c, ab[1], ab[2]), c, ab[1], ab[2], ab[2] - ab[1] + 1,
            Text("chunk", <<>>, <<>>, OkOutcome.chars)) :
     c \in {1, 2}, ab \in {x \in (1..MaxStoredId) \X (1..MaxStoredId) : x[1] <= x[2]}}

LookupInit ==
  /\ chunk_summaries \in {rows \in SUBSET StoredRows : Cardinality(rows) <= MaxStoredRows}
  /\ lk_query \in {[chat_id |-> c, start_message_id |-> a, end_message_id |-> b] :
                     c \in {1, 2}, a \in 1..MaxStoredId, b \in 1..MaxStoredId}
  /\ lk_result = <<>> /\ lk_pc = "call"
  /\ messages = {} /\ allowed_groups = {}
  /\ CbQuiet /\ CfgQuiet /\ ReqQuiet /\ SanQuiet /\ BfQuiet /\ TiQuiet /\ upd = NoUpdate
  /\ OpsQuiet

Lookup ==
  /\ lk_pc = "call"
  /\ lk_result' = db_get_cached_chunks_for_range(chunk_summaries, lk_query.chat_id,
                     lk_query.start_message_id, lk_query.end_message_id)
  /\ lk_pc' = "done"
  /\ UNCHANGED <<lk_query, cb_vars, cfg_vars, db_vars, req_vars, san_vars, bf_vars, ti_vars, upd, ops_vars>>

SpecLookup == LookupInit /\ [][Lookup]_vars

(***************************************************************************)
(* sanitize_html.  A text is a sequence of one-character strings; the      *)
(* positions kept in the tag records are Python's (0-based start,          *)
(* exclusive end).                                                         *)
(***************************************************************************)
Letters == {"a", "b", "c", "d", "e", "f", "g", "h", "i", "j", "k", "l", "m",
            "n", "o", "p", "q", "r", "s", "t", "u", "v", "w", "x", "y", "z",
            "A", "B", "C", "D", "E", "F", "G", "H", "I", "J", "K", "L", "M",
            "N", "O", "P", "Q", "R", "S", "T", "U", "V", "W", "X", "Y", "Z"}
Digits == {"0", "1", "2", "3", "4", "5", "6", "7", "8", "9"}
AlNum == Letters \cup Digits
WordChars == AlNum \cup {"_"}
Whitespace == {" ", "\n", "\t", "\r"}
UpperToLower == [A |-> "a", B |-> "b", C |-> "c", D |-> "d", E |-> "e", F |-> "f",
                 G |-> "g", H |-> "h", I |-> "i", J |-> "j", K |-> "k", L |-> "l",
                 M |-> "m", N |-> "n", O |-> "o", P |-> "p", Q |-> "q", R |-> "r",
                 S |-> "s", T |-> "t", U |-> "u", V |-> "v", W |-> "w", X |-> "x",
                 Y |-> "y", Z |-> "z"]
\* str.lower()
Lower(text) ==
  [i \in 1..Len(text) |->
     IF text[i] \in DOMAIN UpperToLower THEN UpperToLower[text[i]] ELSE text[i]]

\* text[p:].startswith(pat), p a 1-based position
StartsWithAt(text, p, pat) ==
  /\ p + Len(pat) - 1 <= Len(text)
  /\ SubSeq(text, p, p + Len(pat) - 1) = pat

\* str.replace(old, new)
RECURSIVE ReplaceFrom(_, _, _, _)
ReplaceFrom(text, p, old, new) ==
  IF p > Len(text) THEN <<>>
  ELSE IF StartsWithAt(text, p, old) THEN new \o ReplaceFrom(text, p + Len(old), old, new)
  ELSE <<text[p]>> \o ReplaceFrom(text, p + 1, old, new)
Replace(text, old, new) == ReplaceFrom(text, 1, old, new)

\* str.strip()
RECURSIVE LStrip(_)
LStrip(text) ==
  IF text # <<>> /\ Head(text) \in Whitespace THEN LStrip(Tail(text)) ELSE text
RECURSIVE RStrip(_)
RStrip(text) ==
  IF text # <<>> /\ text[Len(text)] \in Whitespace
    THEN RStrip(SubSeq(text, 1, Len(text) - 1)) ELSE text
Strip(text) == LStrip(RStrip(text))

\* line 226, markdown.markdown(text): a line of text and inline tags comes
\* back as one paragraph
markdown_markdown(text) == <<"<", "p", ">">> \o text \o <<"<", "/", "p", ">">>

\* lines 228-244: the literal replacements, in the order of the code; the
\* emoji of the list marker is written "*"
RECURSIVE ReplaceAll(_, _)
ReplaceAll(text, pairs) ==
  IF pairs = <<>> THEN text
  ELSE ReplaceAll(Replace(text, Head(pairs)[1], Head(pairs)[2]), Tail(pairs))
Replacements == <<
  <<<<"<", "b", "r", " ", "/", ">">>, <<"\n">>>>,
  <<<<"<", "b", "r", ">">>, <<"\n">>>>,
  <<<<"<", "s", "t", "r", "o", "n", "g", ">">>, <<"<", "b", ">">>>>,
  <<<<"<", "/", "s", "t", "r", "o", "n", "g", ">">>, <<"<", "/", "b", ">">>>>,
  <<<<"<", "e", "m", ">">>, <<"<", "i", ">">>>>,
  <<<<"<", "/", "e", "m", ">">>, <<"<", "/", "i", ">">>>>,
  <<<<"<", "/", "e", "n", "d", "_", "o", "f", "_", "t", "u", "r", "n", ">">>, <<>>>>,
  <<<<"<", "/", "s", "t", "a", "r", "t", "_", "o", "f", "_", "t", "u", "r", "n", ">">>, <<>>>>,
  <<<<"&", "l", "t", ";">>, <<"<">>>>,
  <<<<"&", "g", "t", ";">>, <<">">>>>,
  <<<<"&", "a", "m", "p", ";">>, <<"&">>>>,
  <<<<"<", "u", "l", ">">>, <<>>>>,
  <<<<"<", "/", "u", "l", ">">>, <<>>>>,
  <<<<"<", "l", "i", ">">>, <<"*", " ">>>>,
  <<<<"<", "/", "l", "i", ">">>, <<"\n", "\n">>>> >>

\* line 247
allowed_tags == {<<"b">>, <<"i">>, <<"u">>, <<"s">>, <<"c", "o", "d", "e">>,
                 <<"p", "r", "e">>, <<"a">>}

\* lines 250-270: the matches of
\*   <(/?)([a-zA-Z][a-zA-Z0-9]*)\b([^>]*)>
\* the last position of the name that starts at p
RECURSIVE NameEnd(_, _)
NameEnd(text, p) ==
  IF p + 1 <= Len(text) /\ text[p + 1] \in AlNum THEN NameEnd(text, p + 1) ELSE p
\* the position of the first ">" at or after p, 0 when there is none
RECURSIVE FindClose(_, _)
FindClose(text, p) ==
  IF p > Len(text) THEN 0
  ELSE IF text[p] = ">" THEN p ELSE FindClose(text, p + 1)

NoTag == [found |-> FALSE, name |-> <<>>, is_closing |-> FALSE, attributes |-> <<>>,
          start |-> 0, end |-> 0, allowed |-> FALSE]
\* the match that starts at the 1-based position p, if there is one
MatchTagAt(text, p) ==
  LET is_closing == p + 1 <= Len(text) /\ text[p + 1] = "/"
      n0 == IF is_closing THEN p + 2 ELSE p + 1
  IN IF text[p] # "<" \/ n0 > Len(text) THEN NoTag
     ELSE IF text[n0] \notin Letters THEN NoTag
     ELSE LET n1 == NameEnd(text, n0)
              gt == FindClose(text, n1 + 1)
          IN IF gt = 0 \/ text[n1 + 1] \in WordChars THEN NoTag
             ELSE [found |-> TRUE,
                   name |-> Lower(SubSeq(text, n0, n1)),
                   is_closing |-> is_closing,
                   attributes |-> Strip(SubSeq(text, n1 + 1, gt - 1)),
                   start |-> p - 1,
                   end |-> gt,
                   allowed |-> Lower(SubSeq(text, n0, n1)) \in allowed_tags]
\* re.finditer: leftmost matches that do not overlap
RECURSIVE FindTags(_, _)
FindTags(text, p) ==
  IF p > Len(text) THEN <<>>
  ELSE LET m == MatchTagAt(text, p)
       IN IF m.found THEN <<m>> \o FindTags(text, m.end + 1)
          ELSE FindTags(text, p + 1)

\* lines 290-294: re.search(r'href\s*=\s*["\']([^"\']*)["\']', attributes, re.I)
Quotes == {"\"", "'"}
RECURSIVE SkipSpace(_, _)
SkipSpace(text, p) ==
  IF p <= Len(text) /\ text[p] \in Whitespace THEN SkipSpace(text, p + 1) ELSE p
RECURSIVE FindQuote(_, _)
FindQuote(text, p) ==
  IF p > Len(text) THEN 0
  ELSE IF text[p] \in Quotes THEN p ELSE FindQuote(text, p + 1)
NoHref == [found |-> FALSE, href |-> <<>>]
HrefAt(attributes, p) ==
  IF ~StartsWithAt(Lower(attributes), p, <<"h", "r", "e", "f">>) THEN NoHref
  ELSE LET eq == SkipSpace(attributes, p + Len(<<"h", "r", "e", "f">>))
       IN IF eq > Len(attributes) THEN NoHref
          ELSE IF attributes[eq] # "=" THEN NoHref
          ELSE LET q1 == SkipSpace(attributes, eq + 1)
               IN IF q1 > Len(attributes) THEN NoHref
                  ELSE IF attributes[q1] \notin Quotes THEN NoHref
                  ELSE LET q2 == FindQuote(attributes, q1 + 1)
                       IN IF q2 = 0 THEN NoHref
                          ELSE [found |-> TRUE, href |-> SubSeq(attributes, q1 + 1, q2 - 1)]
RECURSIVE HrefSearch(_, _)
HrefSearch(attributes, p) ==
  IF p > Len(attributes) THEN NoHref
  ELSE IF HrefAt(attributes, p).found THEN HrefAt(attributes, p)
  ELSE HrefSearch(attributes, p + 1)
\* line 298
HasAllowedScheme(href) ==
  \E scheme \in {<<"h", "t", "t", "p", ":", "/", "/">>,
                 <<"h", "t", "t", "p", "s", ":", "/", "/">>,
                 <<"t", "g", ":", "/", "/">>,
                 <<"m", "a", "i", "l", "t", "o", ":">>} : StartsWithAt(href, 1, scheme)

\* lines 272-326: the stack of open tags and the valid pairs
TagPair(opening_tag, closing_tag, clean_opening, clean_closing) ==
  [opening_tag |-> opening_tag, closing_tag |-> closing_tag,
   clean_opening |-> clean_opening, clean_closing |-> clean_closing]
Pop(tag_stack) == SubSeq(tag_stack, 1, Len(tag_stack) - 1)
TopIs(tag_stack, name) == tag_stack # <<>> /\ tag_stack[Len(tag_stack)].name = name
\* lines 314-315
RECURSIVE PopUntil(_, _)
PopUntil(tag_stack, name) ==
  IF tag_stack # <<>> /\ tag_stack[Len(tag_stack)].name # name
    THEN PopUntil(Pop(tag_stack), name) ELSE tag_stack
\* a closing tag on a stack whose top is another tag: lines 311-319
ClearImproper(tag_stack, name) ==
  IF TopIs(PopUntil(tag_stack, name), name) THEN Pop(PopUntil(tag_stack, name))
  ELSE PopUntil(tag_stack, name)
MatchStep(st, tag) ==
  IF ~tag.allowed THEN st
  ELSE IF ~tag.is_closing THEN [st EXCEPT !.tag_stack = Append(@, tag)]
  ELSE IF TopIs(st.tag_stack, tag.name)
    THEN LET opening_tag == st.tag_stack[Len(st.tag_stack)]
             href_match == HrefSearch(opening_tag.attributes, 1)
         IN IF tag.name = <<"a">>
              THEN IF href_match.found /\ HasAllowedScheme(href_match.href)
                     THEN [tag_stack |-> Pop(st.tag_stack),
                           valid_tags |-> Append(st.valid_tags,
                              TagPair(opening_tag, tag,
                                      <<"<", "a", " ", "h", "r", "e", "f", "=", "\"">>
                                        \o href_match.href \o <<"\"", ">">>,
                                      <<"<", "/", "a", ">">>))]
                     ELSE [st EXCEPT !.tag_stack = Pop(@)]
              ELSE [tag_stack |-> Pop(st.tag_stack),
                    valid_tags |-> Append(st.valid_tags,
                       TagPair(opening_tag, tag,
                               <<"<">> \o tag.name \o <<">">>,
                               <<"<", "/">> \o tag.name \o <<">">>))]
  ELSE [st EXCEPT !.tag_stack = ClearImproper(@, tag.name)]
RECURSIVE MatchTags(_, _)
MatchTags(st, tags) ==
  IF tags = <<>> THEN st ELSE MatchTags(MatchStep(st, Head(tags)), Tail(tags))
\* line 329: valid_tags.sort(key=lambda x: x[0]["start"])
RECURSIVE SortByOpening(_)
SortByOpening(pairs) ==
  IF pairs = <<>> THEN <<>>
  ELSE LET m == SetMin({pairs[i].opening_tag.start : i \in 1..Len(pairs)})
       IN SelectSeq(pairs, LAMBDA x : x.opening_tag.start = m)
            \o SortByOpening(SelectSeq(pairs, LAMBDA x : x.opening_tag.start # m))
ValidTags(tags) ==
  SortByOpening(MatchTags([tag_stack |-> <<>>, valid_tags |-> <<>>], tags).valid_tags)

\* result[:start] + new + result[end:]
Splice(res, start, end, new) ==
  PySlice(res, 0, start) \o new \o PySlice(res, end, Len(res))
\* lines 331-345: the pairs from right to left, each at the positions its tags
\* had in the text that was scanned
ReplacePair(res, pair) ==
  Splice(Splice(res, pair.closing_tag.start, pair.closing_tag.end, pair.clean_closing),
         pair.opening_tag.start, pair.opening_tag.end, pair.clean_opening)
RECURSIVE ReplacePairs(_, _)
ReplacePairs(res, pairs) ==
  IF pairs = <<>> THEN res
  ELSE ReplacePairs(ReplacePair(res, pairs[Len(pairs)]), Pop(pairs))

\* lines 349-365: the tags that are in no valid pair
TagWasUsed(tag, pairs) ==
  \E i \in 1..Len(pairs) :
     \/ tag.start = pairs[i].opening_tag.start /\ tag.end = pairs[i].opening_tag.end
     \/ tag.start = pairs[i].closing_tag.start /\ tag.end = pairs[i].closing_tag.end
\* lines 367-369: removed from right to left, at the scanned positions too
RECURSIVE RemoveTags(_, _)
RemoveTags(res, to_remove) ==
  IF to_remove = <<>> THEN res
  ELSE RemoveTags(Splice(res, to_remove[Len(to_remove)].start,
                         to_remove[Len(to_remove)].end, <<>>),
                  Pop(to_remove))

\* line 372: re.sub(r"\n{3,}", "\n\n", result)
RECURSIVE NewlineRun(_, _)
NewlineRun(text, p) ==
  IF p <= Len(text) /\ text[p] = "\n" THEN 1 + NewlineRun(text, p + 1) ELSE 0
RECURSIVE CollapseNewlines(_, _)
CollapseNewlines(text, p) ==
  IF p > Len(text) THEN <<>>
  ELSE IF NewlineRun(text, p) >= 3
    THEN <<"\n", "\n">> \o CollapseNewlines(text, p + NewlineRun(text, p))
  ELSE <<text[p]>> \o CollapseNewlines(text, p + 1)

\* sanitize_html
sanitize_html(text) ==
  IF text = <<>> THEN text
  ELSE LET scanned == ReplaceAll(markdown_markdown(text), Replacements)
           tags == FindTags(scanned, 1)
           valid_tags == ValidTags(tags)
           replaced == ReplacePairs(scanned, valid_tags)
           all_tags_to_remove == SelectSeq(tags, LAMBDA tag : ~TagWasUsed(tag, valid_tags))
       IN Strip(CollapseNewlines(RemoveTags(replaced, all_tags_to_remove), 1))

(***************************************************************************)
(* SpecSan: sanitize_html applied to the texts made of at most MaxPieces   *)
(* pieces of markup and text.                                              *)
(***************************************************************************)
\* <b>, <b c="t">, </b>, <i>, </i>, <q>, the anchors <a>, <a href="tg://">,
\* <a href="j:"> and <a href="5,9">, </a>, and the letter x
Pieces == {<<"<", "b", ">">>,
           <<"<", "b", " ", "c", "=", "\"", "t", "\"", ">">>,
           <<"<", "/", "b", ">">>,
           <<"<", "i", ">">>,
           <<"<", "/", "i", ">">>,
           <<"<", "q", ">">>,
           <<"<", "a", ">">>,
           <<"<", "a", " ", "h", "r", "e", "f", "=", "\"", "t", "g", ":", "/", "/", "\"", ">">>,
           <<"<", "a", " ", "h", "r", "e", "f", "=", "\"", "j", ":", "\"", ">">>,
           <<"<", "a", " ", "h", "r", "e", "f", "=", "\"", "5", ",", "9", "\"", ">">>,
           <<"<", "/", "a", ">">>,
           <<"x">>}
RECURSIVE TextsOf(_)
TextsOf(n) ==
  IF n = 0 THEN {<<>>}
  ELSE TextsOf(n - 1) \cup {t \o piece : t \in TextsOf(n - 1), piece \in Pieces}
SanInputs == TextsOf(MaxPieces)

SanInit ==
  /\ san_input \in SanInputs /\ san_output = <<>> /\ san_pc = "input"
  /\ CbQuiet /\ CfgQuiet /\ DbQuiet /\ ReqQuiet /\ ExtQuiet

Sanitize ==
  /\ san_pc = "input"
  /\ san_output' = sanitize_html(san_input)
  /\ san_pc' = "done"
  /\ UNCHANGED <<san_input, cb_vars, cfg_vars, db_vars, req_vars, ext_vars>>

SanNext == Sanitize
SpecSan == SanInit /\ [][SanNext]_vars

(***************************************************************************)
(* SpecSanEntities: sanitize_html applied to texts in which tags are       *)
(* written with entities, next to literal tags.                            *)
(***************************************************************************)
\* &lt;q&gt;, &lt;b&gt;, &lt;/b&gt;, and the literal <b c="t">, <b>, </b>, x
EntityPieces == {<<"&", "l", "t", ";", "q", "&", "g", "t", ";">>,
                 <<"&", "l", "t", ";", "b", "&", "g", "t", ";">>,
                 <<"&", "l", "t", ";", "/", "b", "&", "g", "t", ";">>,
                 <<"<", "b", " ", "c", "=", "\"", "t", "\"", ">">>,
                 <<"<", "b", ">">>,
                 <<"<", "/", "b", ">">>,
                 <<"x">>}
RECURSIVE EntityTextsOf(_)
EntityTextsOf(n) ==
  IF n = 0 THEN {<<>>}
  ELSE EntityTextsOf(n - 1)
         \cup {t \o piece : t \in EntityTextsOf(n - 1), piece \in EntityPieces}
SanEntitiesInit ==
  /\ san_input \in EntityTextsOf(MaxPieces) /\ san_output = <<>> /\ san_pc = "input"
  /\ CbQuiet /\ CfgQuiet /\ DbQuiet /\ ReqQuiet /\ ExtQuiet
SpecSanEntities == SanEntitiesInit /\ [][SanNext]_vars

(***************************************************************************)
(* SpecTime: parse_time_interval on short texts of digits, unit letters,   *)
(* another letter and blanks, and on two texts at timedelta's limit.       *)
(***************************************************************************)
\* datetime.timedelta.max.days
MAX_TIMEDELTA_DAYS == 999999999

\* int(match.group(1))
RECURSIVE IntOf(_)
IntOf(digits) ==
  IF digits = <<>> THEN 0
  ELSE 10 * IntOf(SubSeq(digits, 1, Len(digits) - 1))
       + (CHOOSE n \in 0..9 :
            <<"0", "1", "2", "3", "4", "5", "6", "7", "8", "9">>[n + 1] = digits[Len(digits)])

\* timedelta(minutes=value), timedelta(hours=value), timedelta(days=value):
\* normalised to days and seconds, OverflowError beyond the largest day count
timedelta(unit, value) ==
  LET per_day == IF unit = "m" THEN 1440 ELSE IF unit = "h" THEN 24 ELSE 1
      days == value \div per_day
      seconds == (value % per_day) * (86400 \div per_day)
  IN IF days > MAX_TIMEDELTA_DAYS THEN [kind |-> "raised", days |-> 0, seconds |-> 0]
     ELSE [kind |-> "timedelta", days |-> days, seconds |-> seconds]

parse_time_interval(interval_str) ==
  LET s == Strip(Lower(interval_str))
      \* ^(\d+)([mhd])$
      matched == /\ Len(s) >= 2
                 /\ \A i \in 1..(Len(s) - 1) : s[i] \in Digits
                 /\ s[Len(s)] \in {"m", "h", "d"}
  IN IF interval_str = <<>> \/ ~matched THEN [kind |-> "none", days |-> 0, seconds |-> 0]
     ELSE timedelta(s[Len(s)], IntOf(SubSeq(s, 1, Len(s) - 1)))

RECURSIVE TimeTexts(_)
TimeTexts(n) ==
  IF n = 0 THEN {<<>>}
  ELSE TimeTexts(n - 1) \cup
       {t \o <<c>> : t \in TimeTexts(n - 1), c \in {"0", "7", "m", "h", "D", "x", " "}}

TimeInit ==
  /\ ti_input \in TimeTexts(MaxTimeLen) \cup
                  {<<"9", "9", "9", "9", "9", "9", "9", "9", "9", "d">>,
                   <<"1", "0", "0", "0", "0", "0", "0", "0", "0", "0", "d">>}
  /\ ti_result = <<>> /\ ti_pc = "call"
  /\ CbQuiet /\ CfgQuiet /\ DbQuiet /\ ReqQuiet /\ SanQuiet /\ BfQuiet /\ LkQuiet /\ upd = NoUpdate
  /\ OpsQuiet

ParseTimeInterval ==
  /\ ti_pc = "call"
  /\ ti_result' = parse_time_interval(ti_input)
  /\ ti_pc' = "done"
  /\ UNCHANGED <<ti_input, cb_vars, cfg_vars, db_vars, req_vars, san_vars, bf_vars, lk_vars, upd, ops_vars>>

SpecTime == TimeInit /\ [][ParseTimeInterval]_vars

\* the tags of the output, read as the sanitizer reads tags
OutputTags == FindTags(san_output, 1)
\* every closing tag closes the tag opened last, and nothing stays open
RECURSIVE WellNested(_, _)
WellNested(tags, open) ==
  IF tags = <<>> THEN open = <<>>
  ELSE IF ~Head(tags).is_closing THEN WellNested(Tail(tags), Append(open, Head(tags).name))
  ELSE /\ open # <<>>
       /\ open[Len(open)] = Head(tags).name
       /\ WellNested(Tail(tags), Pop(open))

\* C1 (claim): the output of sanitize_html holds only tags of the allowed
\* names, and they are properly nested: every opening tag has its closing
\* tag and every closing tag its opening tag.  The tags are cut out at the
\* positions they had before the replacements, so after an attribute was
\* stripped a tag further right is missed.
C1_OnlyAllowedWellNestedTags ==
  san_pc = "done" =>
     /\ \A i \in 1..Len(OutputTags) : OutputTags[i].allowed
     /\ WellNested(OutputTags, <<>>)

(***************************************************************************)
(* Properties of the summary request and of the chunk table.               *)
(***************************************************************************)
SameChat(r, q) == r.chat_id = q.chat_id
RangesDisjoint(r, q) ==
  r.end_message_id < q.start_message_id \/ q.end_message_id < r.start_message_id
\* the stored messages of a row's chat with an id in the row's range
MessagesInRange(r) ==
  SelectSeq(ChatMessages(r.chat_id),
            LAMBDA m : r.start_message_id <= m /\ m <= r.end_message_id)

\* C2: a summary request always ends by returning a text to its caller and
\* never raises, whatever fails on the way (a completion call of the simple,
\* chunk, reduction or final step, or the code around it).
C2_AlwaysReturnsText ==
  /\ ~result.raised
  /\ pc = "done" => result.returned /\ result.is_text
\* a request ended after an exception reached generate_summary
C2_Witness == pc = "done" /\ result.returned /\ result.text.kind = "sorry"

\* C3 (claim): a chunk whose completion call failed leaves nothing in the
\* chunk table.  The code stores the error text as that chunk's summary.
C3_FailedChunkNotCommitted ==
  \A r \in chunk_summaries : r.summary_text.kind # "error"

\* C5: every stored row was built from exactly chunk_size messages; a
\* shorter slice is never stored.
C5_StoredChunksAreFull ==
  \A r \in chunk_summaries :
     /\ r.message_count = chunk_size
     /\ Len(r.summary_text.of) = chunk_size
\* a caching pass stored a chunk and passed over a shorter trailing slice
C5_Witness ==
  /\ pc = "chunks" /\ loop.should_cache /\ loop.i > Len(loop.boundaries)
  /\ \E i \in 1..Len(loop.boundaries) :
        /\ ~loop.boundaries[i].is_complete
        /\ loop.boundaries[i].message_count < chunk_size
  /\ \E i \in 1..Len(loop.boundaries), r \in chunk_summaries :
        /\ loop.boundaries[i].is_complete
        /\ r.start_message_id = loop.boundaries[i].start_message_id

\* C6 (claim): two distinct stored rows of one chat have disjoint id ranges.
\* With an overlap the consecutive chunks of one pass share messages.
C6_StoredRangesDisjoint ==
  \A r, q \in chunk_summaries : (r # q /\ SameChat(r, q)) => RangesDisjoint(r, q)

\* C7: chunk_id is determined by (chat_id, start_message_id, end_message_id);
\* the table never holds two rows of one chunk_id, and a commit under a
\* chunk_id that is present leaves the row of the first commit as it was.
C7_Step ==
  /\ \A r \in chunk_summaries' :
        r.chunk_id = generate_chunk_id(r.chat_id, r.start_message_id, r.end_message_id)
  /\ \A r, q \in chunk_summaries' : r.chunk_id = q.chunk_id => r = q
  /\ \A r \in chunk_summaries, q \in chunk_summaries' : q.chunk_id = r.chunk_id => q = r
C7_OneRowPerChunkId == [][C7_Step]_vars
\* a boundary that is stored already was committed a second time, with
\* another text than the stored one
C7_Witness ==
  /\ last_store.attempted /\ last_store.duplicate /\ last_store.db_raised
  /\ pc = "chunks" /\ loop.summaries # <<>>
  /\ \E r \in chunk_summaries :
        /\ r.chunk_id = last_store.chunk_id
        /\ r.summary_text # loop.summaries[Len(loop.summaries)]

\* C8 (claim): storing under a chunk_id that is present reaches the caller of
\* the chunk cache's store operation as an error.  ChunkCacheManager catches
\* and logs it.
C8_DuplicateStoreSurfaces ==
  (last_store.attempted /\ last_store.duplicate) => last_store.surfaced

\* C9: the chunk table is append-only: no step of the program removes a row
\* or changes a field of one.
C9_AppendOnly == [][chunk_summaries \subseteq chunk_summaries']_vars
\* a stored row has since seen a later message arrive, another row being
\* stored and the group being denied
C9_Witness ==
  /\ ~is_group_allowed(1)
  /\ \E r \in chunk_summaries :
        /\ \E m \in messages : m.chat_id = r.chat_id /\ m.message_id > r.end_message_id
        /\ \E q \in chunk_summaries : q # r

\* C10: a stored row has start_message_id <= end_message_id, and its
\* message_count is the number of messages that were sent to the completion
\* call that made its text: the messages with an id in its range.
C10_CountMatchesMessages ==
  \A r \in chunk_summaries :
     /\ r.start_message_id <= r.end_message_id
     /\ r.message_count = Len(r.summary_text.of)
     /\ r.summary_text.of = MessagesInRange(r)
\* a row of more than one message, made by a completion that succeeded
C10_Witness ==
  \E r \in chunk_summaries :
     /\ r.summary_text.kind = "chunk"
     /\ r.start_message_id < r.end_message_id
     /\ r.message_count > 1

(***************************************************************************)
(* The backfill pass (SpecBackfill).                                       *)
(***************************************************************************)
\* the pass in progress follows a pass for the same chat, and the chat has
\* the messages it had when that pass returned
SecondPass ==
  /\ bf_pc # "idle" /\ bf_last.ran /\ bf_last.chat_id = bf_chat
  /\ bf_last.messages = ChatMessages(bf_chat)

\* the messages of the chat of the pass that no stored chunk's range contains
NotInAnyChunk ==
  {m \in messages : /\ m.chat_id = bf_chat
                    /\ ~\E r \in chunk_summaries :
                          /\ r.chat_id = bf_chat
                          /\ r.start_message_id <= m.message_id
                          /\ m.message_id <= r.end_message_id}

C12_BackfillLeavesLessThanAChunk ==
  bf_pc = "done" => Cardinality(NotInAnyChunk) < chunk_size
C12_Witness == bf_pc = "done" /\ bf_committed >= 1 /\ NotInAnyChunk # {}

\* the i-th of the oldest consecutive slices of chunk_size uncovered messages
OldestSlice(i) ==
  SubSeq(bf_round.uncovered, (i - 1) * chunk_size + 1, i * chunk_size)
Parallelism == Min(Len(bf_round.uncovered) \div chunk_size, MAX_PARALLEL_CHUNKS)
IsChunkOf(r, slice) ==
  /\ r.chat_id = bf_chat /\ r.message_count = chunk_size
  /\ r.start_message_id = slice[1] /\ r.end_message_id = slice[Len(slice)]
LaterStayUncovered ==
  \A j \in (Parallelism * chunk_size + 1)..Len(bf_round.uncovered) :
     \E m \in NotInAnyChunk : m.message_id = bf_round.uncovered[j]

RequestFullyCovered ==
  /\ pc \notin {"idle", "done"} /\ req.messages # <<>>
  /\ \A i \in 1..Len(req.messages) : \E r \in chunk_summaries :
        /\ r.chat_id = req.chat_id
        /\ r.start_message_id <= req.messages[i] /\ req.messages[i] <= r.end_message_id

\* C14: a request whose messages are all covered by stored chunks makes no
\* completion call over raw messages and stores no chunk.  A step of the
\* request stores a chunk only together with a chunk call, so as long as
\* calls.chunk is 0 the table is the one the request started with.
C14_Step ==
  (RequestFullyCovered /\ calls.simple = 0 /\ calls.chunk = 0) =>
     /\ calls'.simple = 0 /\ calls'.chunk = 0
     /\ chunk_summaries' = chunk_summaries
C14_CoveredRequestUsesCacheOnly == [][C14_Step]_vars

(***************************************************************************)
(* sanitize_html applied to its own output (SpecSan).                      *)
(***************************************************************************)
\* C15: sanitize_html is idempotent: sanitizing a sanitized text changes
\* nothing.
C15_SanitizeIdempotent ==
  san_pc = "done" => sanitize_html(san_output) = san_output

\* the opening anchor tags of the output
AnchorTags == SelectSeq(OutputTags, LAMBDA t : t.name = <<"a">> /\ ~t.is_closing)
\* the text from just after the i-th opening anchor to the next "<"
RECURSIVE UpToTag(_, _)
UpToTag(text, p) ==
  IF p > Len(text) \/ text[p] = "<" THEN <<>> ELSE <<text[p]>> \o UpToTag(text, p + 1)
AnchorText(i) == UpToTag(san_output, AnchorTags[i].end + 1)
AnchorHref(i) == HrefAt(AnchorTags[i].attributes, 1)

\* C16: every <a> tag of the output carries exactly one attribute, an href
\* that starts with http://, https://, tg:// or mailto:, so an anchor with
\* another scheme or without a quoted href is not in the output.
C16_AnchorsHaveAllowedHrefOnly ==
  san_pc = "done" =>
    \A i \in 1..Len(AnchorTags) :
       /\ AnchorHref(i).found /\ HasAllowedScheme(AnchorHref(i).href)
       /\ AnchorTags[i].attributes =
            <<"h", "r", "e", "f", "=", "\"">> \o AnchorHref(i).href \o <<"\"">>

\* C17: the link <a href="5,9">x</a> is message-reference shorthand: the
\* output holds two links, one per message id, each with a fully qualified
\* target that ends in its id; the first keeps the text x, the second is
\* labeled 2.
C17_ShorthandBecomesDeepLinks ==
  (san_pc = "done" /\
   san_input = <<"<", "a", " ", "h", "r", "e", "f", "=", "\"", "5", ",", "9", "\"", ">",
                 "x", "<", "/", "a", ">">>) =>
     /\ Len(AnchorTags) = 2
     /\ \A i \in 1..2 : AnchorHref(i).found /\ HasAllowedScheme(AnchorHref(i).href)
     /\ AnchorHref(1).href[Len(AnchorHref(1).href)] = "5"
     /\ AnchorHref(2).href[Len(AnchorHref(2).href)] = "9"
     /\ AnchorText(1) = <<"x">> /\ AnchorText(2) = <<"2">>

(***************************************************************************)
(* The overlap lookup (SpecLookup).                                        *)
(***************************************************************************)
\* the row's range and the query's range have a message id in common
SharesAnId(r) ==
  \E id \in 1..MaxStoredId :
     /\ r.start_message_id <= id /\ id <= r.end_message_id
     /\ lk_query.start_message_id <= id /\ id <= lk_query.end_message_id

\* C18: the lookup returns exactly the stored chunks of the queried chat
\* with start_message_id <= end and end_message_id >= start, each once, in
\* ascending order of start_message_id; for a query with start <= end these
\* are the chunks whose range intersects the query's.
C18_LookupReturnsIntersectingChunks ==
  lk_pc = "done" =>
     /\ Range(lk_result) =
          {r \in chunk_summaries : /\ r.chat_id = lk_query.chat_id
                                   /\ r.start_message_id <= lk_query.end_message_id
                                   /\ r.end_message_id >= lk_query.start_message_id}
     /\ lk_query.start_message_id <= lk_query.end_message_id =>
          Range(lk_result) = {r \in chunk_summaries : r.chat_id = lk_query.chat_id /\ SharesAnId(r)}
     /\ Cardinality(Range(lk_result)) = Len(lk_result)
     /\ \A i \in 1..Len(lk_result), j \in 1..Len(lk_result) :
          i < j => lk_result[i].start_message_id <= lk_result[j].start_message_id
C18_Witness ==
  /\ lk_pc = "done" /\ Len(lk_result) = 2
  /\ lk_result[1].start_message_id < lk_result[2].start_message_id
  /\ \E r \in chunk_summaries : r.chat_id # lk_query.chat_id /\ SharesAnId(r)

(***************************************************************************)
(* parse_time_interval (SpecTime).                                         *)
(***************************************************************************)
\* the argument trimmed and lower-cased
Trimmed == Strip(Lower(ti_input))
IsIntervalText ==
  /\ Len(Trimmed) >= 2
  /\ \A i \in 1..(Len(Trimmed) - 1) : Trimmed[i] \in Digits
  /\ Trimmed[Len(Trimmed)] \in {"m", "h", "d"}
IntervalN == IntOf(SubSeq(Trimmed, 1, Len(Trimmed) - 1))

\* C19: parse_time_interval returns a duration of N minutes, N hours or N
\* days exactly when its argument, trimmed and lower-cased, is one or more
\* digits N and one unit letter m, h or d; for every other argument it
\* returns None.
C19_ParsesDigitsAndUnit ==
  ti_pc = "done" =>
     IF IsIntervalText
       THEN /\ ti_result.kind = "timedelta"
            /\ Trimmed[Len(Trimmed)] = "m" =>
                 ti_result.days * 1440 * 60 + ti_result.seconds = IntervalN * 60
            /\ Trimmed[Len(Trimmed)] = "h" =>
                 ti_result.days * 24 * 60 + ti_result.seconds \div 60 = IntervalN * 60
            /\ Trimmed[Len(Trimmed)] = "d" =>
                 ti_result.days = IntervalN /\ ti_result.seconds = 0
       ELSE ti_result.kind = "none"

(***************************************************************************)
(* Updates from chats that are not allowed (SpecGate).                     *)
(***************************************************************************)
\* the chat of the update being handled has no active allow-list entry
FromChatNotAllowed ==
  /\ upd'.serial # upd.serial
  /\ ~\E g \in allowed_groups : g.chat_id = upd'.chat_id /\ g.is_active

\* C20: an update of a chat that is not allowed at that moment changes
\* nothing: no message is stored, no reply sent, no completion call made, no
\* chunk processing triggered, no chunk stored.
C20_Step ==
  FromChatNotAllowed =>
     /\ messages' = messages /\ chunk_summaries' = chunk_summaries
     /\ ~upd'.replied /\ ~upd'.called /\ ~upd'.backfill
C20_NotAllowedChatIsIgnored == [][C20_Step]_vars
C20_Witness ==
  /\ upd.kind = "summary" /\ ~upd.allowed /\ ~upd.replied
  /\ \E g \in allowed_groups : g.chat_id = upd.chat_id /\ ~g.is_active
  /\ \E m \in messages : m.chat_id = upd.chat_id
(***************************************************************************)
(* C21: the allow-list changes only through a command of a user in         *)
(* ADMIN_IDS: /allow acts only for an admin inside a group or supergroup,  *)
(* /deny and /list act only for an admin in a private chat; every other    *)
(* command leaves the allow-list unchanged and is answered by a refusal.   *)
(***************************************************************************)
Refusals == {"groups_only", "private_only", "admins_only"}
Entitled(cmd) ==
  /\ cmd.user_id \in ADMIN_IDS
  /\ \/ cmd.cmd = "allow" /\ cmd.chat_type \in {"group", "supergroup"}
     \/ cmd.cmd \in {"deny", "list"} /\ cmd.chat_type = "private"
C21_Step ==
  /\ allowed_groups' # allowed_groups
       => adm' # adm /\ Entitled(adm') /\ adm'.cmd \in {"allow", "deny"}
  /\ adm' # adm /\ ~Entitled(adm')
       => allowed_groups' = allowed_groups /\ adm'.reply \in Refusals
  /\ adm' # adm /\ adm'.reply \notin Refusals => Entitled(adm')
C21_AllowListChangesOnlyByAdmins == [][C21_Step]_vars
C21_Witness ==
  /\ adm.cmd = "deny" /\ adm.reply = "admins_only" /\ adm.user_id \notin ADMIN_IDS
  /\ \E g \in allowed_groups : g.is_active
  /\ \E g \in allowed_groups : ~g.is_active

(***************************************************************************)
(* The messages a text of the request stands for: those it was computed    *)
(* from, those inside the id range of the chunk it summarizes, and those   *)
(* its parts stand for.                                                    *)
(***************************************************************************)
RECURSIVE Represents(_, _)
Represents(t, m) ==
  \/ \E i \in 1..Len(t.of) : t.of[i] = m
  \/ t.kind = "chunk" /\ t.of # <<>> /\ t.of[1] <= m /\ m <= t.of[Len(t.of)]
  \/ \E i \in 1..Len(t.parts) : Represents(t.parts[i], m)
\* the request got its answer from a completion call over all it gathered
AnsweredByFinalCall == pc = "done" /\ result.text.kind \in {"meta", "simple"}

\* C22 (claim): no message of the requested range is dropped from a summary:
\* the input of the final completion call holds, for every message of the
\* range, a cached or live summary (or the raw text) that stands for it.
C22_NoMessageDropped ==
  AnsweredByFinalCall =>
    \A i \in 1..Len(req.messages) : Represents(result.text, req.messages[i])

(***************************************************************************)
(* The ids of the messages a text was computed from, its parts included.   *)
(***************************************************************************)
RECURSIVE SourceIds(_)
SourceIds(t) ==
  Range(t.of) \cup UNION {SourceIds(t.parts[i]) : i \in 1..Len(t.parts)}
\* the texts handed to the final combining call
FinalInput == result.text.parts
AnsweredByCombiningCall == pc = "done" /\ result.text.kind = "meta"

\* C23: the partial summaries of the final input are in range order: of two
\* summaries the earlier one's first message has an id not greater than the
\* later one's first message.
C23_FinalInputInRangeOrder ==
  AnsweredByCombiningCall =>
    \A i, j \in 1..Len(FinalInput) :
      i < j /\ SourceIds(FinalInput[i]) # {} /\ SourceIds(FinalInput[j]) # {}
        => SetMin(SourceIds(FinalInput[i])) <= SetMin(SourceIds(FinalInput[j]))
\* a live summary before a cached chunk and one after it
C23_Witness ==
  /\ AnsweredByCombiningCall /\ Len(FinalInput) = 3 /\ calls.chunk = 2
  /\ SourceIds(FinalInput[1]) # {} /\ SetMin(SourceIds(FinalInput[1])) < covered.start
  /\ SourceIds(FinalInput[3]) # {} /\ SetMin(SourceIds(FinalInput[3])) > covered.end

(***************************************************************************)
(* Progressive summarization of the summaries a request gathered.          *)
(***************************************************************************)
RECURSIVE Concat(_)
Concat(seqs) == IF seqs = <<>> THEN <<>> ELSE Head(seqs) \o Concat(Tail(seqs))
ReduceLimit == (MAX_CONTEXT_TOKENS * CHARS_PER_TOKEN) \div 2
\* consecutive groups, each closed only when the next summary would take it
\* above target
GreedyGroups(groups, target) ==
  /\ \A k \in 1..Len(groups) :
       /\ groups[k] # <<>>
       /\ \A j \in 2..Len(groups[k]) :
            SeqChars(SubSeq(groups[k], 1, j - 1)) + groups[k][j].chars <= target
  /\ \A k \in 1..(Len(groups) - 1) :
       SeqChars(groups[k]) + groups[k + 1][1].chars > target
\* the request found cached chunks, gathered all_summaries and is about to
\* make its final call over meta.summaries
AtFinalCall == pc = "meta" /\ all_summaries # <<>>

OneDirectCall == [simple |-> 1, chunk |-> 0, reduce |-> 0, meta |-> 0]
NoCachedChunkFound == covered = NoCovered

C25_Step ==
  /\ pc' = "simple" => calls' = NoCalls /\ Len(req'.messages) \in 1..threshold
  /\ pc = "simple" /\ pc' = "done" /\ calls'.simple = 1
       => /\ calls' = OneDirectCall /\ NoCachedChunkFound'
          /\ result'.text \in {EmptyText} \cup
               {Text("simple", req.messages, <<>>, c) : c \in SummaryChars}
  /\ calls'.simple > 0 => Len(req'.messages) \in 1..threshold
  /\ result'.text.kind = "simple" => calls' = OneDirectCall
C26_Step ==
  wr' # wr /\ wr'.db_raised =>
    /\ db_vars' = db_vars
    /\ wr'.handled # "logged"
C26_WriteFailureIsNeverSwallowed == [][C26_Step]_vars

(***************************************************************************)
(* C27 (claim): a storage failure during the lookup of the cached chunks   *)
(* is not taken for an empty cache: a request whose range has stored       *)
(* chunks (so that only a failed lookup can come back empty) never goes on *)
(* to summarize the whole range live as if nothing were cached.            *)
(***************************************************************************)
StoredForRequest ==
  db_get_cached_chunks_for_range(chunk_summaries, req.chat_id, req.messages[1],
                                 req.messages[Len(req.messages)])
SummarizesAllLive == pc = "chunks" /\ loop.cont = "deterministic"
C27_Step ==
  pc = "lookup" /\ StoredForRequest # <<>> => ~SummarizesAllLive'
C27_FailedLookupIsNotAnEmptyCache == [][C27_Step]_vars

(***************************************************************************)
(* C28: the backfill loop terminates.  An iteration in which at least one  *)
(* chunk task succeeds takes at least chunk_size messages out of the       *)
(* uncovered ones, the loop is left exactly when fewer than chunk_size are *)
(* uncovered, and, no message arriving during the pass and the completion  *)
(* service succeeding eventually, a pass that started returns.             *)
(***************************************************************************)
UncoveredCount(rows) == Len(coverage_uncovered(rows, bf_chat))
C28_Step ==
  /\ bf_pc = "loop" /\ bf_pc' = "loop" /\ bf_round' # bf_round
       /\ bf_round'.failed < Len(bf_round'.dispatched)
       => UncoveredCount(chunk_summaries') + chunk_size <= UncoveredCount(chunk_summaries)
  /\ bf_pc = "loop" /\ bf_pc' = "done" => UncoveredCount(chunk_summaries) < chunk_size
  /\ bf_pc = "loop" /\ UncoveredCount(chunk_summaries) < chunk_size => bf_pc' = "done"
C28_BackfillTerminates ==
  [][C28_Step]_vars /\ (bf_pc = "loop" ~> bf_pc = "done")
\* a pass that returned after two commits in two iterations: a task of the
\* first iteration had failed
C28_Witness ==
  /\ bf_pc = "done" /\ bf_committed = 2 /\ Len(bf_round.uncovered) = chunk_size
  /\ bf_round.failed = 0 /\ UncoveredCount(chunk_summaries) < chunk_size

(***************************************************************************)
(* C29: under any interleaving of two chunk-committing invocations for one *)
(* chat at most one row per boundary is ever stored: of two inserts of the *)
(* same boundary the first succeeds, the second is rejected by the unique  *)
(* chunk_id and leaves the stored row as it was.                           *)
(***************************************************************************)
SameBoundary(r, q) ==
  /\ r.chat_id = q.chat_id /\ r.start_message_id = q.start_message_id
  /\ r.end_message_id = q.end_message_id
Stored(p) == rc'[p] # rc[p] /\ rc'[p].last.attempted
C29_Step ==
  /\ \A r, q \in chunk_summaries' : SameBoundary(r, q) => r = q
  /\ \A p \in Invocations :
       Stored(p) =>
         IF \E r \in chunk_summaries : r.chunk_id = rc'[p].last.chunk_id
           THEN chunk_summaries' = chunk_summaries /\ rc'[p].last.db_raised
           ELSE /\ ~rc'[p].last.db_raised
                /\ \E r \in chunk_summaries' \ chunk_summaries :
                     /\ r.chunk_id = rc'[p].last.chunk_id
                     /\ chunk_summaries' = chunk_summaries \cup {r}
C29_OneRowPerBoundaryUnderRace == [][C29_Step]_vars
\* both invocations were awaiting the call of the same boundary; the second
\* insert was rejected and the row holds the text of the first
C29_Witness ==
  \E p, q \in Invocations :
    /\ p # q /\ rc[p].last.attempted /\ rc[p].last.db_raised
    /\ rc[q].last.attempted /\ ~rc[q].last.db_raised
    /\ rc[q].last.chunk_id = rc[p].last.chunk_id
    /\ rc[p].pc = "done" /\ rc[q].pc = "done"


(***************************************************************************)
(* Orphaned closing tags and tags left open (SpecSan).                     *)
(***************************************************************************)
\* the tags of the input, read as the sanitizer reads tags
InputTags == FindTags(san_input, 1)
ClosingCount(tags, name) ==
  Len(SelectSeq(tags, LAMBDA t : t.is_closing /\ t.name = name))
\* a closing tag finds an open tag of its name on the stack, and no tag is
\* open at the end
RECURSIVE DropToName(_, _)
DropToName(open, name) ==
  IF open[Len(open)] = name THEN Pop(open) ELSE DropToName(Pop(open), name)
RECURSIVE NoOrphanNoneOpen(_, _)
NoOrphanNoneOpen(tags, open) ==
  IF tags = <<>> THEN open = <<>>
  ELSE IF ~Head(tags).is_closing
    THEN NoOrphanNoneOpen(Tail(tags), Append(open, Head(tags).name))
  ELSE /\ \E i \in 1..Len(open) : open[i] = Head(tags).name
       /\ NoOrphanNoneOpen(Tail(tags), DropToName(open, Head(tags).name))
\* the text with its tags cut out
TextOutsideTags(text) == RemoveTags(text, FindTags(text, 1))

\* C30: sanitize_html removes an orphaned closing tag and an allowed tag that
\* is still open at the end of the input: the output has no closing tag
\* without an open tag of its name and no tag left open, it has no closing
\* tag that the input did not have, and the text outside the tags is kept.
\* The tags outside the valid pairs are cut out at the positions of the
\* scanned text, so after an attribute was stripped they are missed.
C30_OrphanedAndUnclosedTagsRemoved ==
  san_pc = "done" =>
     /\ NoOrphanNoneOpen(OutputTags, <<>>)
     /\ \A i \in 1..Len(OutputTags) :
          OutputTags[i].is_closing =>
            ClosingCount(OutputTags, OutputTags[i].name)
              <= ClosingCount(InputTags, OutputTags[i].name)
     /\ TextOutsideTags(san_output) = Strip(TextOutsideTags(san_input))


(***************************************************************************)
(* Text outside the tags (SpecSan).                                        *)
(***************************************************************************)
\* <b c="t">x</b>, the model's form of <b class="test">Bold</b>
BoldWithAttribute ==
  <<"<", "b", " ", "c", "=", "\"", "t", "\"", ">", "x", "<", "/", "b", ">">>
\* <q>x, a tag of a name that is not allowed, and its text
DisallowedWithText == <<"<", "q", ">", "x">>

\* C31: sanitize_html removes tags only, never text: a tag of a name that is
\* not allowed is removed and its text kept, the attributes of an allowed tag
\* other than a link are stripped (<b c="t">x</b> gives <b>x</b>), and the
\* characters outside the tags of the input are the characters outside the
\* tags of the output, in the same order.
C31_OnlyTagsAreRemoved ==
  san_pc = "done" =>
     /\ TextOutsideTags(san_output) = Strip(TextOutsideTags(san_input))
     /\ san_input = DisallowedWithText => san_output = <<"x">>
     /\ san_input = BoldWithAttribute
          => san_output = <<"<", "b", ">", "x", "<", "/", "b", ">">>
     /\ \A i \in 1..Len(OutputTags) :
          OutputTags[i].name # <<"a">> => OutputTags[i].attributes = <<>>


(***************************************************************************)
(* Tags written with entities (SpecSanEntities).                           *)
(***************************************************************************)
\* line 241: the entities of the input written out
EntitiesDecoded(text) ==
  Replace(Replace(Replace(text, <<"&", "l", "t", ";">>, <<"<">>),
                  <<"&", "g", "t", ";">>, <<">">>),
          <<"&", "a", "m", "p", ";">>, <<"&">>)
WrittenWithEntities == EntitiesDecoded(san_input) # san_input

\* C32: the entities are decoded before the tags are matched, so a tag
\* written with entities is treated as the same tag written literally, and
\* it is never a live tag of the output outside those rules: every tag of
\* the output has an allowed name and is one of a matched pair.
C32_EntityTagsUnderTheTagRules ==
  (san_pc = "done" /\ WrittenWithEntities) =>
     /\ san_output = sanitize_html(EntitiesDecoded(san_input))
     /\ \A i \in 1..Len(OutputTags) : OutputTags[i].allowed
     /\ NoOrphanNoneOpen(OutputTags, <<>>)


(***************************************************************************)
(* The sanitizer as the last step of generate_summary (Spec).              *)
(***************************************************************************)
\* C33: every text generate_summary returns has gone through sanitize_html
\* as the last step: the normal result, the fallback texts made of partial
\* summaries, and the placeholder returned after an exception.
C33_EveryReturnedTextIsSanitized ==
  (pc = "done" /\ result.returned) => result.sanitize_passes >= 1


(***************************************************************************)
(* What deny_group reports (SpecAdmin).                                    *)
(***************************************************************************)
DenyAnswered(reply) ==
  adm'.serial # adm.serial /\ adm'.cmd = "deny" /\ adm'.reply = reply
C34_Step ==
  /\ DenyAnswered("denied")
       => \E g \in allowed_groups :
            g.is_active /\ [g EXCEPT !.is_active = FALSE] \in allowed_groups'
  /\ DenyAnswered("not_found") => allowed_groups' = allowed_groups
\* C34: deny_group reports success only for a group that was allowed just
\* before the call; for an unknown or an already denied group it reports
\* failure (the caller answers "not found or already denied") and the
\* allow-list stays as it was.
C34_DenyReportsSuccessOnlyForAllowedGroup == [][C34_Step]_vars


(***************************************************************************)
(* The allow-list under sequences of calls (SpecAllow).                    *)
(***************************************************************************)
EntriesOf(groups, c) == {g \in groups : g.chat_id = c}
C35_State ==
  \A c \in Groups :
     /\ Cardinality(EntriesOf(allowed_groups, c)) <= 1
     /\ is_group_allowed(c) <=> al.last[c] = "allow"
C35_Step ==
  /\ \A d \in Groups \ {al'.chat_id} :
        EntriesOf(allowed_groups', d) = EntriesOf(allowed_groups, d)
  /\ (al'.op = "allow" /\ al'.succeeded /\ EntriesOf(allowed_groups, al'.chat_id) # {})
        => Cardinality(allowed_groups') = Cardinality(allowed_groups)
\* C35: after any sequence of allow_group and deny_group calls the allow-list
\* has at most one entry per chat, and is_group_allowed(c) is true exactly when
\* an allow_group(c) has succeeded and no deny_group(c) has succeeded after the
\* last one; allowing a denied group sets its entry active again and adds no
\* entry, and a call for one chat leaves the entries of the other chats alone.
C35_AllowListFollowsLastSuccessfulCall == []C35_State /\ [][C35_Step]_vars
\* a denied group was allowed again while another group stays denied
C35_Witness ==
  /\ al.op = "allow" /\ al.succeeded /\ al.prev = "deny"
  /\ is_group_allowed(al.chat_id)
  /\ \E d \in Groups \ {al.chat_id} : al.last[d] = "deny" /\ ~is_group_allowed(d)
  /\ \E e \in Groups : al.last[e] = "none" /\ EntriesOf(allowed_groups, e) = {}


(***************************************************************************)
(* The summary command of a user without stored messages (SpecRange).      *)
(***************************************************************************)
C36_Step ==
  (/\ tr'.serial # tr.serial /\ tr'.time_interval = "None"
   /\ is_group_allowed(tr'.chat_id)
   /\ get_last_user_message_time(messages, tr'.chat_id, tr'.user_id).is_none)
    => tr'.desc = "last_24h" /\ tr'.reply = "summary"
\* C36: the summary command without a time interval, from a user with no
\* stored message in the chat, summarizes the last 24 hours ("Last 24 hours
\* (no previous messages found)"); it does not end in "Failed to generate
\* summary." for that reason.
C36_NoMessagesMeansLast24Hours == [][C36_Step]_vars


(***************************************************************************)
(* Termination of calculate_chunk_boundaries (SpecChunkFair).              *)
(***************************************************************************)
C37_Step ==
  /\ cb_pc' # "raised"
  /\ (cb_pc = "loop" /\ cb_pc' = "loop") => cb_start_idx' > cb_start_idx
C37_StartsIncrease ==
  cb_pc = "done" =>
    \A i \in 1..(Len(cb_boundaries) - 1) :
       cb_boundaries[i].start_message_id < cb_boundaries[i + 1].start_message_id
\* C37: calculate_chunk_boundaries terminates for every non-empty list of
\* messages, every chunk_size >= 1 and every overlap >= 0, an overlap of
\* chunk_size or more included: the start position grows with every
\* iteration, and the call returns a list of boundaries whose starts
\* strictly increase.
C37_BoundariesTerminate ==
  /\ [][C37_Step]_vars
  /\ []C37_StartsIncrease
  /\ (cb_pc = "entry" /\ cb_messages # <<>>) ~> cb_pc = "done"


(***************************************************************************)
(* A matched pair around an orphaned closing tag (SpecSan).                *)
(***************************************************************************)
BoldOpen == <<"<", "b", ">">>
BoldClose == <<"<", "/", "b", ">">>
\* </i> and </a>: closing tags of another name with no open tag of that name
OrphanedClosings == {<<"<", "/", "i", ">">>, <<"<", "/", "a", ">">>}
\* <b></i></b> and <b></a></b>, the model's form of <b>x</i>y</b>
PairAroundOrphan == {BoldOpen \o orphan \o BoldClose : orphan \in OrphanedClosings}

\* C38: a correctly matched pair of allowed tags survives an orphaned closing
\* tag of another name between its opening and its closing tag: the pair is
\* kept and only the orphaned closing tag is removed.
C38_PairSurvivesOrphanInside ==
  (san_pc = "done" /\ san_input \in PairAroundOrphan) => san_output = BoldOpen \o BoldClose


(***************************************************************************)
(* No chunk is stored twice (SpecSequential).                              *)
(***************************************************************************)
\* the stored rows of the request's chat
RowsOfRequest == {r \in chunk_summaries : r.chat_id = req.chat_id}
BoundaryClearOf(b, r) ==
  r.end_message_id < b.start_message_id \/ b.end_message_id < r.start_message_id
\* C39: with one summary request at a time and no storage failure, the
\* program never tries to store a chunk whose chunk_id is in the table: the
\* boundaries it computes for storing lie among messages that no stored chunk
\* covers, and no completion call is made for a boundary that is stored.
C39_NoStoredChunkRecomputed ==
  /\ last_store.attempted => ~last_store.duplicate /\ ~last_store.db_raised
  /\ (pc = "chunks" /\ loop.should_cache /\ loop.i = 1) =>
        \A j \in DOMAIN loop.boundaries :
           loop.boundaries[j].is_complete =>
             \A r \in RowsOfRequest : BoundaryClearOf(loop.boundaries[j], r)
  /\ (LoopAtBoundary /\ ~SkipsBoundary) =>
        \A r \in RowsOfRequest :
           r.chunk_id # generate_chunk_id(req.chat_id, CurBoundary.start_message_id,
                                          CurBoundary.end_message_id)
\* a request that found stored chunks has stored a new chunk behind them
C39_Witness ==
  /\ pc = "chunks" /\ loop.cont = "after" /\ loop.should_cache
  /\ last_store.attempted /\ ~last_store.duplicate
  /\ \E r \in RowsOfRequest : r.chunk_id = last_store.chunk_id /\ r.start_message_id > covered.end
  /\ \E r \in RowsOfRequest : r.end_message_id <= covered.end

====
